---- MODULE Spec2Model ----
(***************************************************************************)
(* A model of the ADS-B aggregation pipeline of OpenAirframes:             *)
(*   - the per-entity compression of compress_adsb_to_aircraft_data.py,    *)
(*   - the hash partitioning of process_icao_chunk.py,                     *)
(*   - the combine / baseline merge of combine_chunks_to_csv.py,           *)
(*   - the cross-chunk deduplication of worker.py and reducer.py,          *)
(*   - the orchestration of run_local.py and of the Step Functions state   *)
(*     machine of infra/stack.py,                                          *)
(*   - the download, extraction and parsing of                             *)
(*     download_adsb_data_to_parquet.py and process_icao_chunk.py,         *)
(*   - a local run with the disk its commands share,                       *)
(*   - generate_chunks of historical_generate_matrix.py and                *)
(*     trigger_pipeline.py.                                                *)
(*                                                                         *)
(* A data frame is a sequence of rows; a row is a record with the fields   *)
(* icao, time and one field per identity column.  Strings are TLA+ strings *)
(* (TLC concatenates them with \o), an icao is the sequence of the code    *)
(* points of its characters, a time is a number.                           *)
(*                                                                         *)
(* Where polars leaves a row order unspecified (group_by, unique and       *)
(* partition_by without maintain_order=True, ties of a sort), the order is *)
(* a nondeterministic choice of the action that performs the call.         *)
(***************************************************************************)
EXTENDS Integers, Sequences, FiniteSets, TLC

VARIABLES
    \* compress_df_polars on one group (SpecGroup)
    g_pc, g_df, g_rows_data, g_fallback, g_result,
    \* compress_multi_icao_df and the combine step (SpecAgg, SpecCombine)
    a_pc, a_df, df_compressed, chunk_files, compressed_chunks, combined,
    \* get_chunk_icaos over a manifest (SpecPartition)
    p_icaos, p_total_chunks, p_out,
    \* run_local.main (SpecOrch)
    rl_pc, rl_date_chunks, rl_chunks, rl_idx, rl_chunk_id, rl_log,
    \* the Step Functions state machine of infra/stack.py (SpecOrch)
    sfn_state, sfn_iter, sfn_reduce,
    \* reducer.main (SpecReduce)
    r_pc, r_dfs, r_accumulated,
    \* download_and_merge_base_release and the end of
    \* combine_chunks_to_csv.main (SpecMerge)
    m_pc, base_df, compressed_df, m_outcome, m_combined,
    \* compress_multi_icao_df applied to its own result (SpecIdem)
    df_again,
    \* process_file on one trace document (SpecParse)
    pf_pc, pf_data, pf_result,
    \* process_date_range and process_chunk (SpecChunk)
    pc_pc, pc_dirs, pc_icaos, pc_chunk_id, pc_total_chunks, pc_trace_map, pc_trace_files, pc_offset, pc_results, pc_batch_rows, pc_writer, pc_opened, pc_closed, pc_written, pc_fault, pc_parsed,
    \* fetch_releases (SpecFetch)
    f_pc, f_page, f_attempt, f_outcome, f_tries, f_sleeps, f_releases,
    \* download_asset (SpecDownload)
    dl_fs, dl_requests, dl_log,
    \* extract_split_archive (SpecExtract)
    e_dirs, e_log,
    \* intermediate locations of the map tasks (SpecKeys)
    k_writes,
    \* run_local with the disk it works on (SpecLocal)
    lr_pc, lr_end, lr_date_chunks, lr_chunks, lr_idx, lr_chunk_id, lr_dirs, lr_files, lr_reads, lr_selected, lr_loaded, lr_compressed, lr_csv, lr_deleted,
    \* generate_chunks of historical_generate_matrix.py and trigger_pipeline.py (SpecGenerate)
    gen_pc, gen_kind, gen_end, gen_chunk_days, gen_current, gen_chunks

g_vars == <<g_pc, g_df, g_rows_data, g_fallback, g_result>>
a_vars == <<a_pc, a_df, df_compressed, chunk_files, compressed_chunks, combined>>

p_vars == <<p_icaos, p_total_chunks, p_out>>

rl_vars == <<rl_pc, rl_date_chunks, rl_chunks, rl_idx, rl_chunk_id, rl_log>>
sfn_vars == <<sfn_state, sfn_iter, sfn_reduce>>
o_vars == <<rl_vars, sfn_vars>>

r_vars == <<r_pc, r_dfs, r_accumulated>>
m_vars == <<m_pc, base_df, compressed_df, m_outcome, m_combined>>

i_vars == <<df_again>>

\* The state of the download, extract and parse stage.
pf_vars == <<pf_pc, pf_data, pf_result>>
pc_vars == <<pc_pc, pc_dirs, pc_icaos, pc_chunk_id, pc_total_chunks, pc_trace_map, pc_trace_files, pc_offset, pc_results, pc_batch_rows, pc_writer, pc_opened, pc_closed, pc_written, pc_fault, pc_parsed>>
f_vars == <<f_pc, f_page, f_attempt, f_outcome, f_tries, f_sleeps, f_releases>>
dl_vars == <<dl_fs, dl_requests, dl_log>>
e_vars == <<e_dirs, e_log>>
k_vars == <<k_writes>>
lr_vars == <<lr_pc, lr_end, lr_date_chunks, lr_chunks, lr_idx, lr_chunk_id, lr_dirs, lr_files, lr_reads, lr_selected, lr_loaded, lr_compressed, lr_csv, lr_deleted>>
gen_vars == <<gen_pc, gen_kind, gen_end, gen_chunk_days, gen_current, gen_chunks>>
d_vars == <<pf_vars, pc_vars, f_vars, dl_vars, e_vars, k_vars, lr_vars, gen_vars>>

old_vars == <<g_vars, a_vars, p_vars, o_vars, r_vars, m_vars, i_vars>>

n_vars == <<i_vars, d_vars>>

vars == <<g_vars, a_vars, p_vars, o_vars, r_vars, m_vars, n_vars>>

(***************************************************************************)
(* The part of the state a specification does not use stays idle.          *)
(***************************************************************************)
G_Idle ==
    /\ g_pc = "idle"
    /\ g_df = <<>>
    /\ g_rows_data = <<>>
    /\ g_fallback = FALSE
    /\ g_result = <<>>

A_Idle ==
    /\ a_pc = "idle"
    /\ a_df = {}
    /\ df_compressed = <<>>
    /\ chunk_files = <<>>
    /\ compressed_chunks = <<>>
    /\ combined = <<>>

P_Idle ==
    /\ p_icaos = <<>>
    /\ p_total_chunks = 1
    /\ p_out = <<>>

O_Idle ==
    /\ rl_pc = "idle"
    /\ rl_date_chunks = <<>>
    /\ rl_chunks = 0
    /\ rl_idx = 0
    /\ rl_chunk_id = 0
    /\ rl_log = <<>>
    /\ sfn_state = "idle"
    /\ sfn_iter = <<>>
    /\ sfn_reduce = "notstarted"

R_Idle ==
    /\ r_pc = "idle"
    /\ r_dfs = <<>>
    /\ r_accumulated = <<>>

M_Idle ==
    /\ m_pc = "idle"
    /\ base_df = <<>>
    /\ compressed_df = <<>>
    /\ m_outcome = "none"
    /\ m_combined = <<>>

I_Idle == df_again = <<>>

PF_Idle ==
    /\ pf_pc = "idle"
    /\ pf_data = <<>>
    /\ pf_result = <<>>

PC_Idle ==
    /\ pc_pc = "idle"
    /\ pc_dirs = <<>>
    /\ pc_icaos = <<>>
    /\ pc_chunk_id = 0
    /\ pc_total_chunks = 1
    /\ pc_trace_map = <<>>
    /\ pc_trace_files = <<>>
    /\ pc_offset = 0
    /\ pc_results = <<>>
    /\ pc_batch_rows = <<>>
    /\ pc_writer = "none"
    /\ pc_opened = 0
    /\ pc_closed = 0
    /\ pc_written = <<>>
    /\ pc_fault = "none"
    /\ pc_parsed = {}

F_Idle ==
    /\ f_pc = "idle"
    /\ f_page = 1
    /\ f_attempt = 1
    /\ f_outcome = "none"
    /\ f_tries = 0
    /\ f_sleeps = <<>>
    /\ f_releases = <<>>

DL_Idle ==
    /\ dl_fs = <<>>
    /\ dl_requests = 0
    /\ dl_log = <<>>

E_Idle ==
    /\ e_dirs = <<>>
    /\ e_log = <<>>

K_Idle ==
    /\ k_writes = <<>>

LR_Idle ==
    /\ lr_pc = "idle"
    /\ lr_end = 0
    /\ lr_date_chunks = <<>>
    /\ lr_chunks = 0
    /\ lr_idx = 0
    /\ lr_chunk_id = 0
    /\ lr_dirs = <<>>
    /\ lr_files = {}
    /\ lr_reads = <<>>
    /\ lr_selected = <<>>
    /\ lr_loaded = 0
    /\ lr_compressed = <<>>
    /\ lr_csv = <<>>
    /\ lr_deleted = {}

GEN_Idle ==
    /\ gen_pc = "idle"
    /\ gen_kind = "none"
    /\ gen_end = 0
    /\ gen_chunk_days = 0
    /\ gen_current = 0
    /\ gen_chunks = <<>>

D_Idle == PF_Idle /\ PC_Idle /\ F_Idle /\ DL_Idle /\ E_Idle /\ K_Idle /\ LR_Idle /\ GEN_Idle

Old_Idle == G_Idle /\ A_Idle /\ P_Idle /\ O_Idle /\ R_Idle /\ M_Idle /\ I_Idle

\* What the actions on pf_vars leave unchanged, and hold idle at the start.
PF_Frame == UNCHANGED <<old_vars, pc_vars, f_vars, dl_vars, e_vars, k_vars, lr_vars, gen_vars>>

PF_OthersIdle == Old_Idle /\ PC_Idle /\ F_Idle /\ DL_Idle /\ E_Idle /\ K_Idle /\ LR_Idle /\ GEN_Idle

\* What the actions on pc_vars leave unchanged, and hold idle at the start.
PC_Frame == UNCHANGED <<old_vars, pf_vars, f_vars, dl_vars, e_vars, k_vars, lr_vars, gen_vars>>

PC_OthersIdle == Old_Idle /\ PF_Idle /\ F_Idle /\ DL_Idle /\ E_Idle /\ K_Idle /\ LR_Idle /\ GEN_Idle

\* What the actions on f_vars leave unchanged, and hold idle at the start.
F_Frame == UNCHANGED <<old_vars, pf_vars, pc_vars, dl_vars, e_vars, k_vars, lr_vars, gen_vars>>

F_OthersIdle == Old_Idle /\ PF_Idle /\ PC_Idle /\ DL_Idle /\ E_Idle /\ K_Idle /\ LR_Idle /\ GEN_Idle

\* What the actions on dl_vars leave unchanged, and hold idle at the start.
DL_Frame == UNCHANGED <<old_vars, pf_vars, pc_vars, f_vars, e_vars, k_vars, lr_vars, gen_vars>>

DL_OthersIdle == Old_Idle /\ PF_Idle /\ PC_Idle /\ F_Idle /\ E_Idle /\ K_Idle /\ LR_Idle /\ GEN_Idle

\* What the actions on e_vars leave unchanged, and hold idle at the start.
E_Frame == UNCHANGED <<old_vars, pf_vars, pc_vars, f_vars, dl_vars, k_vars, lr_vars, gen_vars>>

E_OthersIdle == Old_Idle /\ PF_Idle /\ PC_Idle /\ F_Idle /\ DL_Idle /\ K_Idle /\ LR_Idle /\ GEN_Idle

\* What the actions on k_vars leave unchanged, and hold idle at the start.
K_Frame == UNCHANGED <<old_vars, pf_vars, pc_vars, f_vars, dl_vars, e_vars, lr_vars, gen_vars>>

K_OthersIdle == Old_Idle /\ PF_Idle /\ PC_Idle /\ F_Idle /\ DL_Idle /\ E_Idle /\ LR_Idle /\ GEN_Idle

\* What the actions on lr_vars leave unchanged, and hold idle at the start.
LR_Frame == UNCHANGED <<old_vars, pf_vars, pc_vars, f_vars, dl_vars, e_vars, k_vars, gen_vars>>

LR_OthersIdle == Old_Idle /\ PF_Idle /\ PC_Idle /\ F_Idle /\ DL_Idle /\ E_Idle /\ K_Idle /\ GEN_Idle

\* What the actions on gen_vars leave unchanged, and hold idle at the start.
GEN_Frame == UNCHANGED <<old_vars, pf_vars, pc_vars, f_vars, dl_vars, e_vars, k_vars, lr_vars>>

GEN_OthersIdle == Old_Idle /\ PF_Idle /\ PC_Idle /\ F_Idle /\ DL_Idle /\ E_Idle /\ K_Idle /\ LR_Idle

N_Idle == I_Idle /\ D_Idle

(***************************************************************************)
(* Bounds of the model.                                                    *)
(***************************************************************************)
MaxRows == 3
MaxTime == 2
\* --total-chunks of the partitioned run
TotalChunks == 2
\* the length of a manifest and the largest --total-chunks (SpecPartition)
MaxIcaos == 3
MaxChunks == 3
\* run_local: the last end date, the largest --chunk-days and --chunks
MaxDay == 3
MaxChunkDays == 2
MaxIcaoChunks == 2
\* the largest number of items of $.chunks given to the state machine
MaxSfnChunks == 4
\* the largest number of rows of the base release and of the new data
MaxBaseRows == 2
MaxNewRows == 2
\* the largest number of rows of the trace of a document
MaxTraceRows == 2
\* process_date_range: the days of the range
MaxRangeDays == 2
\* process_chunk: BATCH_SIZE (100_000 rows) and files_per_batch
\* (MAX_WORKERS * 100 files), scaled down
BATCH_SIZE == 2
FilesPerBatch == 2
\* fetch_releases: the pages of releases of the listing
MaxPages == 2
\* download_asset, extract_split_archive: the calls of a run
MaxCalls == 3
\* intermediate locations: tasks, days and partitions
MaxTasks == 2
MaxKeyDays == 2
MaxKeyChunks == 2
\* the local run: the last day with an extract directory, the icao chunks
MaxLocalDay == 3
MaxLocalChunks == 2
\* generate_chunks: the dates datetime holds (scaled), the arguments and the
\* chunks followed
MinDate == 0
MaxGenDay == 4
MaxGenChunkDays == 2
MaxGenChunks == 4

(***************************************************************************)
(* Values.                                                                 *)
(***************************************************************************)
\* polars null / Python None
None == "<null>"

\* The identity columns.  The source has seven; the model keeps the last two
\* ('r', registration, and 't', type code), which every step treats like the
\* other five.
COLUMNS == <<"r", "t">>

ColumnSet == {COLUMNS[i] : i \in 1..Len(COLUMNS)}

\* The values a raw identity field takes in the model: absent, empty, a
\* plain value, and a value that holds the separator of concat_str.
RawVals(c) == IF c = "r" THEN {None, "", "N1", "|"} ELSE {"", "B7", "|"}

Times == 1..MaxTime

\* Two entity ids, as the code points of their characters.
Icaos == {<<1>>, <<2>>}

RawRows == {[icao |-> i, time |-> tm, r |-> a, t |-> b] :
              i \in Icaos, tm \in Times, a \in RawVals("r"), b \in RawVals("t")}

(***************************************************************************)
(* Sequences and frames.                                                   *)
(***************************************************************************)
Range(s) == {s[i] : i \in 1..Len(s)}

\* Every order in which the rows of the set S can be laid out.
Orders(S) == {s \in [1..Cardinality(S) -> S] : Range(s) = S}

\* Sequences over S of length at most n.
SeqsUpTo(S, n) == UNION {[1..k -> S] : k \in 0..n}

\* The subsets of S with at most n elements.
SetsUpTo(S, n) == {Range(s) : s \in SeqsUpTo(S, n)}

\* df.filter(...) on a sequence.
RECURSIVE FilterIdx(_, _, _)
FilterIdx(s, keep, i) ==
    IF i > Len(s) THEN <<>>
    ELSE (IF i \in keep THEN <<s[i]>> ELSE <<>>) \o FilterIdx(s, keep, i + 1)

\* The indices of the first occurrence of each key, in order.
FirstIdx(keys) == {i \in 1..Len(keys) : \A j \in 1..(i - 1) : keys[j] # keys[i]}

(***************************************************************************)
(* compress_adsb_to_aircraft_data.py: signatures.                          *)
(***************************************************************************)
RECURSIVE Join(_, _)
Join(vals, sep) ==
    IF Len(vals) = 0 THEN ""
    ELSE IF Len(vals) = 1 THEN vals[1]
    ELSE vals[1] \o sep \o Join(Tail(vals), sep)

\* pl.concat_str(exprs, separator): null as soon as one operand is null.
ConcatStr(vals, sep) ==
    IF \E i \in 1..Len(vals) : vals[i] = None THEN None ELSE Join(vals, sep)

\* pl.col(c).fill_null("")
FillNull(v) == IF v = None THEN "" ELSE v

\* The identity fields of a row, in column order.
Fields(row) == [i \in 1..Len(COLUMNS) |-> row[COLUMNS[i]]]

\* The rows of a frame with every identity column null-filled.
FillRow(row) == [c \in DOMAIN row |-> IF c \in ColumnSet THEN FillNull(row[c]) ELSE row[c]]

\* The _signature column of compress_df_polars (no fill_null).
Signature(row) == ConcatStr(Fields(row), "|")

\* The _signature column of deduplicate_by_signature (fill_null("") first).
FilledSignature(row) == ConcatStr(Fields(FillRow(row)), "|")

(***************************************************************************)
(* compress_df_polars.                                                     *)
(***************************************************************************)
\* signature_counts: the number of rows of df with signature s.
SigCount(df, s) == Cardinality({i \in 1..Len(df) : Signature(df[i]) = s})

\* df.group_by("_signature").first(): one row per signature, the first of its
\* group in frame order; the groups come in the order sig_order, which
\* polars leaves unspecified.
GroupBySignatureFirst(df, sig_order) ==
    [k \in 1..Len(sig_order) |->
        LET idx == {i \in 1..Len(df) : Signature(df[i]) = sig_order[k]}
        IN  df[CHOOSE i \in idx : \A j \in idx : i <= j]]

\* non_empty: the dict of the columns whose value is neither '' nor None.
NonEmptyDict(row) ==
    [c \in {c \in ColumnSet : row[c] # "" /\ row[c] # None} |-> row[c]]

\* dict.get(k)
Get(d, k) == IF k \in DOMAIN d THEN d[k] ELSE None

\* rows_data, one entry per representative.
RowsData(reps) ==
    [i \in 1..Len(reps) |->
        [signature      |-> Signature(reps[i]),
         non_empty_dict |-> NonEmptyDict(reps[i]),
         non_empty_count |-> Cardinality(DOMAIN NonEmptyDict(reps[i])),
         row_data       |-> reps[i]]]

\* A comparison that does not skip the row itself and takes equal counts.
IsSubsetOfAny_Reflexive(rows_data, idx) ==
    \E other_idx \in 1..Len(rows_data) :
        /\ \A k \in DOMAIN rows_data[idx].non_empty_dict :
               Get(rows_data[idx].non_empty_dict, k)
                 = Get(rows_data[other_idx].non_empty_dict, k)
        /\ rows_data[other_idx].non_empty_count >= rows_data[idx].non_empty_count

\* The comparison of the counts reversed.
IsSubsetOfAny_Reversed(rows_data, idx) ==
    \E other_idx \in 1..Len(rows_data) :
        /\ idx # other_idx
        /\ \A k \in DOMAIN rows_data[idx].non_empty_dict :
               Get(rows_data[idx].non_empty_dict, k)
                 = Get(rows_data[other_idx].non_empty_dict, k)
        /\ rows_data[other_idx].non_empty_count < rows_data[idx].non_empty_count

IsSubsetOfAny(rows_data, idx) ==
    \E other_idx \in 1..Len(rows_data) :
        /\ idx # other_idx
        /\ \A k \in DOMAIN rows_data[idx].non_empty_dict :
               Get(rows_data[idx].non_empty_dict, k)
                 = Get(rows_data[other_idx].non_empty_dict, k)
        /\ rows_data[other_idx].non_empty_count > rows_data[idx].non_empty_count

\* The indices the domination filter keeps, before the fallback.
NotDominated(rows_data) ==
    {i \in 1..Len(rows_data) : ~IsSubsetOfAny(rows_data, i)}

\* keep_indices, with the 'keep first row' fallback.
KeepIndices(rows_data) ==
    IF NotDominated(rows_data) = {} THEN {1} ELSE NotDominated(rows_data)

\* The tie-break without head(1): every row with the highest count.
MostFrequentHead_NoHead(df, kept) ==
    LET cnt(i) == SigCount(df, Signature(kept[i]))
    IN  FilterIdx(kept, {i \in 1..Len(kept) : \A j \in 1..Len(kept) : cnt(j) <= cnt(i)}, 1)

\* The frequency tie-break: the rows with the highest _sig_count, head(1).
MostFrequentHead(df, kept) ==
    LET cnt(i) == SigCount(df, Signature(kept[i]))
        best   == {i \in 1..Len(kept) : \A j \in 1..Len(kept) : cnt(j) <= cnt(i)}
    IN  <<kept[CHOOSE i \in best : \A j \in best : i <= j]>>

\* A with_columns(pl.lit(icao)) that writes one icao whatever the group.
Finalize_ConstIcao(frame, icao, fill) ==
    [i \in 1..Len(frame) |-> [frame[i] EXCEPT !.icao = <<1>>]]

\* The result frame: icao set to the argument, identity columns null-filled.
Finalize(frame, icao, fill) ==
    [i \in 1..Len(frame) |->
        LET row == [frame[i] EXCEPT !.icao = icao]
        IN  IF fill THEN FillRow(row) ELSE row]

\* compress_df_polars(df, icao), with the group order of group_by given.
CompressDfPolars(df, icao, sig_order) ==
    LET reps      == GroupBySignatureFirst(df, sig_order)
        rows_data == RowsData(reps)
        remaining == {rows_data[i].signature : i \in KeepIndices(rows_data)}
        \* is_in is null for a null signature, and filter drops the row
        kept      == FilterIdx(reps, {i \in 1..Len(reps) :
                                        /\ Signature(reps[i]) # None
                                        /\ Signature(reps[i]) \in remaining}, 1)
    IN  IF Len(reps) = 1 THEN Finalize(reps, icao, FALSE)
        ELSE IF Len(kept) > 1 THEN Finalize(MostFrequentHead(df, kept), icao, TRUE)
        ELSE Finalize(kept, icao, TRUE)

\* The signatures of a frame, and the orders group_by may give them.
SignatureSet(df) == {Signature(df[i]) : i \in 1..Len(df)}

(***************************************************************************)
(* Specification SpecGroup: compress_df_polars on one entity's group.      *)
(***************************************************************************)
\* The rows a caller hands over: both callers null-fill the identity
\* columns first (compress_multi_icao_df line 121, concat_compressed_dfs
\* line 233), and the group holds the rows of one icao.
GroupRows == {FillRow(row) : row \in {x \in RawRows : x.icao = <<1>>}}

G_Init ==
    /\ A_Idle /\ P_Idle /\ O_Idle /\ R_Idle /\ M_Idle /\ N_Idle
    /\ g_pc = "input"
    /\ g_df \in SeqsUpTo(GroupRows, MaxRows) \ {<<>>}
    /\ g_rows_data = <<>>
    /\ g_fallback = FALSE
    /\ g_result = <<>>

G_Compress ==
    /\ g_pc = "input"
    /\ \E sig_order \in Orders(SignatureSet(g_df)) :
          /\ g_rows_data' = RowsData(GroupBySignatureFirst(g_df, sig_order))
          /\ g_fallback' = (Len(sig_order) > 1 /\ NotDominated(g_rows_data') = {})
          /\ g_result' = CompressDfPolars(g_df, <<1>>, sig_order)
    /\ g_pc' = "done"
    /\ UNCHANGED <<g_df, a_vars, p_vars, o_vars, r_vars, m_vars, n_vars>>

G_Next == G_Compress

SpecGroup == G_Init /\ [][G_Next]_vars

(***************************************************************************)
(* process_icao_chunk.py: the hash partitioning.                           *)
(***************************************************************************)
\* deterministic_hash(s): the sum of the code points of s.
RECURSIVE deterministic_hash(_)
deterministic_hash(s) ==
    IF Len(s) = 0 THEN 0 ELSE s[1] + deterministic_hash(Tail(s))

\* The comparison against a 1-indexed chunk id.
get_chunk_icaos_OneIndexed(icaos, chunk_id, total_chunks) ==
    FilterIdx(icaos, {i \in 1..Len(icaos) :
                        deterministic_hash(icaos[i]) % total_chunks = chunk_id + 1}, 1)

\* get_chunk_icaos(icaos, chunk_id, total_chunks)
get_chunk_icaos(icaos, chunk_id, total_chunks) ==
    FilterIdx(icaos, {i \in 1..Len(icaos) :
                        deterministic_hash(icaos[i]) % total_chunks = chunk_id}, 1)

(***************************************************************************)
(* compress_multi_icao_df.                                                 *)
(***************************************************************************)
\* Lines 116-124: sort by (icao, time), null-fill, unique on icao + COLUMNS
\* keeping the first: of the rows with one icao and one set of field values
\* the earliest stays.  The frame is held as the set of its rows: unique
\* (maintain_order=False) leaves their order unspecified.
QuickDedup(frame) ==
    LET filled == {FillRow(row) : row \in frame}
    IN  {row \in filled :
            \A q \in filled :
                (q.icao = row.icao /\ Fields(q) = Fields(row)) => row.time <= q.time}

\* The keys of a frame in order of first appearance (maintain_order=True).
FirstSeen(keys) == FilterIdx(keys, FirstIdx(keys), 1)

\* The rows of one icao, in frame order.
PartitionOf(frame, icao) ==
    FilterIdx(frame, {i \in 1..Len(frame) : frame[i].icao = icao}, 1)

RECURSIVE CompressGroups(_, _)
CompressGroups(frame, icao_keys) ==
    IF Len(icao_keys) = 0 THEN <<>>
    ELSE LET group_df == PartitionOf(frame, icao_keys[1])
             \* the order of group_by("_signature"): any order; the order of
             \* first appearance in a frame whose own order is any order
             sig_order == FirstSeen([i \in 1..Len(group_df) |-> Signature(group_df[i])])
         IN  CompressDfPolars(group_df, icao_keys[1], sig_order)
               \o CompressGroups(frame, Tail(icao_keys))

\* compress_multi_icao_df(df), with the row order `order` that unique leaves.
CompressMultiIcaoDf(frame, order) ==
    IF frame = {} THEN <<>>
    ELSE CompressGroups(order, FirstSeen([i \in 1..Len(order) |-> order[i].icao]))

(***************************************************************************)
(* combine_chunks_to_csv.py.                                               *)
(***************************************************************************)
\* The rows process_chunk writes to the parquet file of chunk_id: those of
\* the icaos get_chunk_icaos selects.
ChunkRows(frame, chunk_id, total_chunks) ==
    {row \in frame : deterministic_hash(row.icao) % total_chunks = chunk_id}

\* find_chunk_files: the chunk ids that have a file (process_chunk writes
\* none for a chunk without rows), sorted.
FindChunkFiles(frame, total_chunks) ==
    LET ids == {c \in 0..(total_chunks - 1) : ChunkRows(frame, c, total_chunks) # {}}
    IN  [k \in 1..Cardinality(ids) |->
            CHOOSE c \in ids : Cardinality({d \in ids : d < c}) = k - 1]

RECURSIVE pl_concat(_)
pl_concat(frames) ==
    IF Len(frames) = 0 THEN <<>> ELSE frames[1] \o pl_concat(Tail(frames))

\* combine_compressed_chunks: concatenation, no deduplication.
combine_compressed_chunks(compressed_dfs) == pl_concat(compressed_dfs)

(***************************************************************************)
(* Specifications SpecAgg (compress_multi_icao_df on a raw frame) and      *)
(* SpecCombine (the same frame, also hash-partitioned into chunk files,    *)
(* compressed chunk by chunk and concatenated).                            *)
(***************************************************************************)
A_Init ==
    /\ G_Idle /\ P_Idle /\ O_Idle /\ R_Idle /\ M_Idle /\ N_Idle
    /\ a_pc = "compress"
    /\ a_df \in SetsUpTo(RawRows, MaxRows)
    /\ df_compressed = <<>>
    /\ chunk_files = <<>>
    /\ compressed_chunks = <<>>
    /\ combined = <<>>

\* compress_multi_icao_df over the whole raw frame.
A_CompressWhole ==
    /\ a_pc = "compress"
    /\ \E order \in Orders(QuickDedup(a_df)) :
          df_compressed' = CompressMultiIcaoDf(a_df, order)
    /\ a_pc' = "compressed"
    /\ UNCHANGED <<a_df, chunk_files, compressed_chunks, combined, g_vars, p_vars, o_vars, r_vars, m_vars, n_vars>>

\* main, lines 197-204: the chunk files of the run.
A_FindChunkFiles ==
    /\ a_pc = "compressed"
    /\ chunk_files' = FindChunkFiles(a_df, TotalChunks)
    /\ a_pc' = IF chunk_files' = <<>> THEN "exit1" ELSE "chunks"
    /\ UNCHANGED <<a_df, df_compressed, compressed_chunks, combined, g_vars, p_vars, o_vars, r_vars, m_vars, n_vars>>

\* main, lines 209-211: process_single_chunk on the next chunk file.
A_ProcessSingleChunk ==
    /\ a_pc = "chunks"
    /\ Len(compressed_chunks) < Len(chunk_files)
    /\ LET chunk == ChunkRows(a_df, chunk_files[Len(compressed_chunks) + 1], TotalChunks)
       IN  \E order \in Orders(QuickDedup(chunk)) :
              compressed_chunks' =
                  Append(compressed_chunks, CompressMultiIcaoDf(chunk, order))
    /\ UNCHANGED <<a_pc, a_df, df_compressed, chunk_files, combined, g_vars, p_vars, o_vars, r_vars, m_vars, n_vars>>

\* main, line 215.
A_Combine ==
    /\ a_pc = "chunks"
    /\ Len(compressed_chunks) = Len(chunk_files)
    /\ combined' = combine_compressed_chunks(compressed_chunks)
    /\ a_pc' = "combined"
    /\ UNCHANGED <<a_df, df_compressed, chunk_files, compressed_chunks, g_vars, p_vars, o_vars, r_vars, m_vars, n_vars>>

A_Next == A_CompressWhole

SpecAgg == A_Init /\ [][A_Next]_vars

C_Next ==
    \/ A_CompressWhole
    \/ A_FindChunkFiles
    \/ A_ProcessSingleChunk
    \/ A_Combine

SpecCombine == A_Init /\ [][C_Next]_vars

(***************************************************************************)
(* Claims on the aggregation.                                              *)
(***************************************************************************)
\* The non-empty (field, value) pairs of a row.
NonEmptyPairs(row) ==
    {<<c, row[c]>> : c \in {c \in ColumnSet : row[c] # "" /\ row[c] # None}}

\* Row b dominates row a: every non-empty pair of a is one of b, and b has
\* strictly more non-empty fields.
Dominates(b, a) ==
    /\ NonEmptyPairs(a) \subseteq NonEmptyPairs(b)
    /\ Cardinality(NonEmptyPairs(b)) > Cardinality(NonEmptyPairs(a))

FrameIcaos(frame) == {frame[i].icao : i \in 1..Len(frame)}

\* The null-filled raw rows of one icao.
RawGroup(icao) == {FillRow(row) : row \in {x \in a_df : x.icao = icao}}

\* The number of raw observations of icao with signature sig.
RawSigCount(icao, sig) ==
    Cardinality({row \in a_df : row.icao = icao /\ FilledSignature(row) = sig})

\* C1: compress_multi_icao_df returns exactly one row for each icao of its
\* input and no row for any other icao.
C1_OneRowPerIcao ==
    a_pc = "compressed" =>
        /\ FrameIcaos(df_compressed) = {row.icao : row \in a_df}
        /\ \A i, j \in 1..Len(df_compressed) :
               df_compressed[i].icao = df_compressed[j].icao => i = j

C1_Witness ==
    /\ a_pc = "compressed"
    /\ Cardinality(a_df) = 3
    /\ Cardinality({row.icao : row \in a_df}) = 2
    /\ Cardinality({FilledSignature(row) : row \in a_df}) = 3
    /\ Len(df_compressed) = 2

\* C2: the row compress_df_polars returns is dominated by no representative
\* of the group; the rows {r: N1, t: ""} and {r: N1, t: B7} yield the second.
C2_ResultNotDominated ==
    g_pc = "done" =>
        /\ Len(g_result) = 1
        /\ \A i \in 1..Len(g_rows_data) :
               ~Dominates(g_rows_data[i].row_data, g_result[1])
        /\ ({Fields(g_df[i]) : i \in 1..Len(g_df)} = {<<"N1", "">>, <<"N1", "B7">>}
               => Fields(g_result[1]) = <<"N1", "B7">>)

C2_Witness ==
    /\ g_pc = "done"
    /\ Len(g_df) = 2
    /\ Fields(g_df[1]) = <<"N1", "">>
    /\ Fields(g_df[2]) = <<"N1", "B7">>
    /\ Len(g_rows_data) = 2
    /\ Fields(g_result[1]) = <<"N1", "B7">>

\* C3: when the raw observations of an entity have several signatures none of
\* which dominates another, compress_multi_icao_df returns the row whose
\* signature occurs most often among the raw observations.
C3_MostFrequentReturned ==
    a_pc = "compressed" =>
        \A i \in 1..Len(df_compressed) :
            LET icao == df_compressed[i].icao
            IN  (/\ Cardinality(RawGroup(icao)) > 1
                 /\ \A a, b \in RawGroup(icao) : ~Dominates(b, a))
                => \A row \in RawGroup(icao) :
                       RawSigCount(icao, Signature(row))
                         <= RawSigCount(icao, Signature(df_compressed[i]))

\* C5: for two chunk files (their icao sets are disjoint), the concatenation
\* of the compressed chunks holds the same rows as compress_multi_icao_df
\* over the whole raw frame, none lost and none duplicated.
C5_ChunkedEqualsWhole ==
    (a_pc = "combined" /\ Len(chunk_files) = 2) =>
        /\ Range(combined) = Range(df_compressed)
        /\ Len(combined) = Len(df_compressed)

\* C10: when all raw rows of an entity share one signature, the entity gets
\* a single row whose identity fields are the null-filled fields of those rows.
C10_SingleSignatureUnchanged ==
    a_pc = "compressed" =>
        \A icao \in {row.icao : row \in a_df} :
            Cardinality({FilledSignature(row) : row \in {x \in a_df : x.icao = icao}}) = 1
            => /\ Cardinality({i \in 1..Len(df_compressed) : df_compressed[i].icao = icao}) = 1
               /\ \A i \in 1..Len(df_compressed) :
                      df_compressed[i].icao = icao
                      => \A row \in RawGroup(icao) : Fields(df_compressed[i]) = Fields(row)

(***************************************************************************)
(* Specification SpecPartition: get_chunk_icaos called once per chunk id   *)
(* on one manifest, in any order of the chunk ids.                         *)
(***************************************************************************)
\* Identifiers, as code points: <<1, 2>> and <<2, 1>> are anagrams and
\* <<3>> has their hash.
PartitionIds == {<<1>>, <<2>>, <<3>>, <<1, 2>>, <<2, 1>>}

P_Init ==
    /\ G_Idle /\ A_Idle /\ O_Idle /\ R_Idle /\ M_Idle /\ N_Idle
    /\ p_icaos \in SeqsUpTo(PartitionIds, MaxIcaos)
    /\ p_total_chunks \in 1..MaxChunks
    /\ p_out = <<>>

P_GetChunkIcaos ==
    /\ \E chunk_id \in (0..(p_total_chunks - 1)) \ DOMAIN p_out :
          p_out' = (chunk_id :> get_chunk_icaos(p_icaos, chunk_id, p_total_chunks)) @@ p_out
    /\ UNCHANGED <<p_icaos, p_total_chunks, g_vars, a_vars, o_vars, r_vars, m_vars, n_vars>>

P_Next == P_GetChunkIcaos

SpecPartition == P_Init /\ [][P_Next]_vars

RECURSIVE TotalLen(_, _)
TotalLen(out, ids) ==
    IF ids = {} THEN 0
    ELSE LET c == CHOOSE c \in ids : TRUE
         IN  Len(out[c]) + TotalLen(out, ids \ {c})

\* C4: the chunks of two chunk ids share no identifier; once every chunk id
\* of 0..n-1 has been asked for, every identifier of the list is in exactly
\* one chunk and the chunks together hold the list, occurrence by occurrence.
C4_ChunksPartitionTheList ==
    /\ \A c, d \in DOMAIN p_out :
           c # d => Range(p_out[c]) \cap Range(p_out[d]) = {}
    /\ DOMAIN p_out = 0..(p_total_chunks - 1) =>
           /\ \A id \in Range(p_icaos) :
                  Cardinality({c \in DOMAIN p_out : id \in Range(p_out[c])}) = 1
           /\ UNION {Range(p_out[c]) : c \in DOMAIN p_out} = Range(p_icaos)
           /\ TotalLen(p_out, DOMAIN p_out) = Len(p_icaos)
           /\ \A c \in DOMAIN p_out : \A id \in Range(p_icaos) :
                  Cardinality({i \in 1..Len(p_out[c]) : p_out[c][i] = id})
                    \in {0, Cardinality({i \in 1..Len(p_icaos) : p_icaos[i] = id})}

C4_Witness ==
    /\ p_total_chunks = 2
    /\ DOMAIN p_out = {0, 1}
    /\ p_icaos = <<(<<1, 2>>), (<<2>>), (<<2, 1>>)>>
    /\ p_out[0] = <<(<<2>>)>>
    /\ p_out[1] = <<(<<1, 2>>), (<<2, 1>>)>>

(***************************************************************************)
(* run_local.py.                                                           *)
(***************************************************************************)
Min(a, b) == IF a < b THEN a ELSE b

\* Lines 84-92: the date chunks of [start_date, end_date), chunk_days >= 1.
RECURSIVE GenerateDateChunks(_, _, _)
GenerateDateChunks(current, end_date, chunk_days) ==
    IF current < end_date
    THEN LET chunk_end == Min(current + chunk_days, end_date)
         IN  <<[start |-> current, end |-> chunk_end]>>
               \o GenerateDateChunks(chunk_end, end_date, chunk_days)
    ELSE <<>>

\* The exit codes of a subprocess.
ReturnCodes == {0, 1}

\* run_cmd that goes on after a failure.
RunCmdExits_Never(returncode) == FALSE

\* run_cmd: sys.exit(returncode) when the command failed.
RunCmdExits(returncode) == returncode # 0

\* The position after the map commands of date chunk idx from chunk_id on.
AfterMapStep(idx, chunk_id) ==
    IF chunk_id < rl_chunks THEN [pc |-> "process", idx |-> idx, chunk_id |-> chunk_id]
    ELSE IF idx < Len(rl_date_chunks) THEN [pc |-> "download", idx |-> idx + 1, chunk_id |-> 0]
    ELSE [pc |-> "combine", idx |-> idx, chunk_id |-> 0]

RL_Goto(pos) ==
    /\ rl_pc' = pos.pc
    /\ rl_idx' = pos.idx
    /\ rl_chunk_id' = pos.chunk_id

RL_Exit ==
    /\ rl_pc' = "exit"
    /\ UNCHANGED <<rl_idx, rl_chunk_id, n_vars>>

\* Lines 117-119: download_and_list_icaos for the date chunk.
RL_Download ==
    /\ rl_pc = "download"
    /\ \E rc \in ReturnCodes :
          /\ rl_log' = Append(rl_log, [cmd |-> "download", idx |-> rl_idx,
                                        chunk_id |-> 0, rc |-> rc])
          /\ IF RunCmdExits(rc) THEN RL_Exit ELSE RL_Goto(AfterMapStep(rl_idx, 0))
    /\ UNCHANGED <<rl_date_chunks, rl_chunks, sfn_vars, g_vars, a_vars, p_vars, r_vars, m_vars, n_vars>>

\* Lines 126-133: process_icao_chunk for the next icao chunk.
RL_Process ==
    /\ rl_pc = "process"
    /\ \E rc \in ReturnCodes :
          /\ rl_log' = Append(rl_log, [cmd |-> "process", idx |-> rl_idx,
                                        chunk_id |-> rl_chunk_id, rc |-> rc])
          /\ IF RunCmdExits(rc) THEN RL_Exit
             ELSE RL_Goto(AfterMapStep(rl_idx, rl_chunk_id + 1))
    /\ UNCHANGED <<rl_date_chunks, rl_chunks, sfn_vars, g_vars, a_vars, p_vars, r_vars, m_vars, n_vars>>

\* Lines 140-150: combine_chunks_to_csv.
RL_Combine ==
    /\ rl_pc = "combine"
    /\ \E rc \in ReturnCodes :
          /\ rl_log' = Append(rl_log, [cmd |-> "combine", idx |-> 0,
                                        chunk_id |-> 0, rc |-> rc])
          /\ rl_pc' = IF RunCmdExits(rc) THEN "exit" ELSE "done"
    /\ UNCHANGED <<rl_idx, rl_chunk_id, rl_date_chunks, rl_chunks, sfn_vars,
                   g_vars, a_vars, p_vars, r_vars, m_vars, n_vars>>

(***************************************************************************)
(* infra/stack.py: FanOutChunks (a Map state, no Retry and no Catch) and   *)
(* then ReduceResults.                                                     *)
(***************************************************************************)
max_concurrency == 3

Running == {i \in DOMAIN sfn_iter : sfn_iter[i] = "running"}

\* The Map state starts the next item while fewer than max_concurrency run.
SFN_StartIteration ==
    /\ sfn_state = "FanOutChunks"
    /\ Cardinality(Running) < max_concurrency
    /\ \E i \in DOMAIN sfn_iter :
          /\ sfn_iter[i] = "pending"
          /\ \A j \in 1..(i - 1) : sfn_iter[j] # "pending"
          /\ sfn_iter' = [sfn_iter EXCEPT ![i] = "running"]
    /\ UNCHANGED <<sfn_state, sfn_reduce, rl_vars, g_vars, a_vars, p_vars, r_vars, m_vars, n_vars>>

\* ProcessChunk (RUN_JOB): the ECS task of an item exits 0.
SFN_IterationSucceeds ==
    /\ sfn_state = "FanOutChunks"
    /\ \E i \in Running : sfn_iter' = [sfn_iter EXCEPT ![i] = "succeeded"]
    /\ UNCHANGED <<sfn_state, sfn_reduce, rl_vars, g_vars, a_vars, p_vars, r_vars, m_vars, n_vars>>

\* The ECS task of an item fails: the Map state fails, its other running
\* items are stopped, and with no Catch the execution fails.
SFN_IterationFails ==
    /\ sfn_state = "FanOutChunks"
    /\ \E i \in Running :
          sfn_iter' = [j \in DOMAIN sfn_iter |->
                          IF j = i THEN "failed"
                          ELSE IF sfn_iter[j] = "running" THEN "aborted"
                          ELSE sfn_iter[j]]
    /\ sfn_state' = "Failed"
    /\ UNCHANGED <<sfn_reduce, rl_vars, g_vars, a_vars, p_vars, r_vars, m_vars, n_vars>>

\* map_state.next(reduce_ecs_task): every item has succeeded.
SFN_StartReduce ==
    /\ sfn_state = "FanOutChunks"
    /\ \A i \in DOMAIN sfn_iter : sfn_iter[i] = "succeeded"
    /\ sfn_state' = "ReduceResults"
    /\ sfn_reduce' = "running"
    /\ UNCHANGED <<sfn_iter, rl_vars, g_vars, a_vars, p_vars, r_vars, m_vars, n_vars>>

SFN_ReduceEnds ==
    /\ sfn_state = "ReduceResults"
    /\ \E ok \in BOOLEAN :
          /\ sfn_reduce' = IF ok THEN "succeeded" ELSE "failed"
          /\ sfn_state' = IF ok THEN "Succeeded" ELSE "Failed"
    /\ UNCHANGED <<sfn_iter, rl_vars, g_vars, a_vars, p_vars, r_vars, m_vars, n_vars>>

(***************************************************************************)
(* Specification SpecOrch: one local run and one state machine execution.  *)
(***************************************************************************)
O_Init ==
    /\ G_Idle /\ A_Idle /\ P_Idle /\ R_Idle /\ M_Idle /\ N_Idle
    /\ \E end_date \in 1..MaxDay, chunk_days \in 1..MaxChunkDays :
          rl_date_chunks = GenerateDateChunks(1, end_date, chunk_days)
    /\ rl_chunks \in 0..MaxIcaoChunks
    /\ rl_idx = 1
    /\ rl_chunk_id = 0
    /\ rl_pc = IF rl_date_chunks = <<>> THEN "combine" ELSE "download"
    /\ rl_log = <<>>
    /\ sfn_state = "FanOutChunks"
    /\ \E n \in 1..MaxSfnChunks : sfn_iter = [i \in 1..n |-> "pending"]
    /\ sfn_reduce = "notstarted"

O_Next ==
    \/ RL_Download
    \/ RL_Process
    \/ RL_Combine
    \/ SFN_StartIteration
    \/ SFN_IterationSucceeds
    \/ SFN_IterationFails
    \/ SFN_StartReduce
    \/ SFN_ReduceEnds

SpecOrch == O_Init /\ [][O_Next]_vars

\* The map commands run_local has to run before it combines.
MapCommands ==
    {[cmd |-> "download", idx |-> i, chunk_id |-> 0, rc |-> 0] :
        i \in 1..Len(rl_date_chunks)}
    \cup {[cmd |-> "process", idx |-> i, chunk_id |-> c, rc |-> 0] :
        i \in 1..Len(rl_date_chunks), c \in 0..(rl_chunks - 1)}

\* C6: reduce starts only after every map task has finished successfully,
\* and never once a map task has failed: in run_local the combine command is
\* run after every download and process command exited 0; in the state
\* machine ReduceResults starts only when every item of FanOutChunks has
\* succeeded.
C6_ReduceAfterAllMaps ==
    /\ \A k \in 1..Len(rl_log) :
           rl_log[k].cmd = "combine" =>
               /\ k = Len(rl_log)
               /\ {rl_log[j] : j \in 1..(k - 1)} = MapCommands
    /\ (\E k \in 1..Len(rl_log) : rl_log[k].cmd # "combine" /\ rl_log[k].rc # 0)
           => rl_pc = "exit" /\ \A k \in 1..Len(rl_log) : rl_log[k].cmd # "combine"
    /\ sfn_reduce # "notstarted" => \A i \in DOMAIN sfn_iter : sfn_iter[i] = "succeeded"
    /\ (\E i \in DOMAIN sfn_iter : sfn_iter[i] \in {"failed", "aborted"})
           => sfn_reduce = "notstarted" /\ sfn_state = "Failed"

C6_Witness ==
    /\ rl_pc = "done"
    /\ Len(rl_date_chunks) = 2
    /\ rl_chunks = 2
    /\ Len(rl_log) = 7
    /\ sfn_reduce = "running"
    /\ Len(sfn_iter) = 4

(***************************************************************************)
(* deduplicate_by_signature and reducer.py.                                *)
(***************************************************************************)
\* The rows of a chunk CSV.
ChunkCsvVals(c) == IF c = "r" THEN {None, "", "N1"} ELSE {None, "B7"}

ChunkCsvRows == {[icao |-> i, time |-> tm, r |-> a, t |-> b] :
                    i \in Icaos, tm \in Times,
                    a \in ChunkCsvVals("r"), b \in ChunkCsvVals("t")}

IsTimeSorted(df) == \A i \in 1..Len(df) : \A j \in i..Len(df) : df[i].time <= df[j].time

Arrangements(df) == {[i \in 1..Len(df) |-> df[p[i]]] : p \in Orders(1..Len(df))}

\* A sort that leaves the frame in any order.
SortByTime_Unsorted(df) == Arrangements(df)

\* df.sort("time"): the results the sort can give (rows of equal time come
\* in any order).
SortByTime(df) == {s \in Arrangements(df) : IsTimeSorted(s)}

\* The group key: icao and the "|"-joined, null-filled COLUMNS.
GroupKey(row) == <<row.icao, FilledSignature(row)>>

\* group_by(["icao", "_signature"]).first(): the first row of every group.
GroupByFirst(df) ==
    LET keys == [i \in 1..Len(df) |-> GroupKey(df[i])]
    IN  FilterIdx(df, FirstIdx(keys), 1)

\* The results deduplicate_by_signature can give.
deduplicate_by_signature(df) ==
    UNION {SortByTime(GroupByFirst(s)) : s \in SortByTime(df)}

\* What worker.py writes: a frame deduplicated by signature, sorted by time.
IsWorkerOutput(df) ==
    /\ IsTimeSorted(df)
    /\ \A i, j \in 1..Len(df) : GroupKey(df[i]) = GroupKey(df[j]) => i = j

WorkerOutputs(n) == {df \in SeqsUpTo(ChunkCsvRows, n) : IsWorkerOutput(df)}

\* The ways to cut a frame into the frames of two chunk files.
Cuts(df) == {<<SubSeq(df, 1, k), SubSeq(df, k + 1, Len(df))>> : k \in 0..Len(df)}

\* The chunk files of a run: none, one, or two, each written by a worker,
\* with n rows at most in all.
ChunkFileLists(n) ==
    {<<>>} \cup {<<df>> : df \in WorkerOutputs(n)}
    \cup UNION {{l \in Cuts(df) : IsWorkerOutput(l[1]) /\ IsWorkerOutput(l[2])} :
                  df \in SeqsUpTo(ChunkCsvRows, n)}

R_Init ==
    /\ G_Idle /\ A_Idle /\ P_Idle /\ O_Idle /\ M_Idle /\ N_Idle
    /\ r_pc = "list"
    /\ r_dfs \in ChunkFileLists(MaxRows)
    /\ r_accumulated = <<>>

\* Lines 40-42: no chunk keys, nothing to reduce.
R_NoChunks ==
    /\ r_pc = "list"
    /\ r_dfs = <<>>
    /\ r_pc' = "returned"
    /\ UNCHANGED <<r_dfs, r_accumulated, g_vars, a_vars, p_vars, o_vars, m_vars, n_vars>>

\* Lines 50-71: load every chunk and concatenate.
R_Concat ==
    /\ r_pc = "list"
    /\ r_dfs # <<>>
    /\ r_accumulated' = pl_concat(r_dfs)
    /\ r_pc' = "concatenated"
    /\ UNCHANGED <<r_dfs, g_vars, a_vars, p_vars, o_vars, m_vars, n_vars>>

\* Lines 74-92: the final deduplication, then write and upload.
R_Dedup ==
    /\ r_pc = "concatenated"
    /\ r_accumulated' \in deduplicate_by_signature(r_accumulated)
    /\ r_pc' = "uploaded"
    /\ UNCHANGED <<r_dfs, g_vars, a_vars, p_vars, o_vars, m_vars, n_vars>>

R_Next ==
    \/ R_NoChunks
    \/ R_Concat
    \/ R_Dedup

SpecReduce == R_Init /\ [][R_Next]_vars

R_Input == pl_concat(r_dfs)

\* C7: the final dataset of the reduce step has exactly one row per icao.
C7_OneRowPerEntityId ==
    r_pc = "uploaded" =>
        \A i, j \in 1..Len(r_accumulated) :
            r_accumulated[i].icao = r_accumulated[j].icao => i = j

\* C8: deduplicate_by_signature returns exactly one row for each (icao,
\* signature) pair of its input, a row of that group with the earliest time
\* of the group, and no row of any other pair.
C8_EarliestRowPerPair ==
    r_pc = "uploaded" =>
        /\ \A k \in 1..Len(R_Input) :
              \E i \in 1..Len(r_accumulated) :
                 /\ GroupKey(r_accumulated[i]) = GroupKey(R_Input[k])
                 /\ r_accumulated[i].time <= R_Input[k].time
                 /\ \A j \in 1..Len(r_accumulated) :
                       GroupKey(r_accumulated[j]) = GroupKey(R_Input[k]) => j = i
        /\ \A i \in 1..Len(r_accumulated) :
              \E k \in 1..Len(R_Input) : r_accumulated[i] = R_Input[k]

C8_Witness ==
    /\ r_pc = "uploaded"
    /\ Len(r_dfs) = 2
    /\ Len(r_accumulated) = 2
    /\ \E i, j \in 1..Len(R_Input) :
          /\ i < j
          /\ GroupKey(R_Input[i]) = GroupKey(R_Input[j])
          /\ R_Input[j].time < R_Input[i].time
          /\ R_Input[i].r # R_Input[j].r

(***************************************************************************)
(* combine_chunks_to_csv.py: download_and_merge_base_release, and the sort *)
(* of main.                                                                *)
(***************************************************************************)
\* The values of the base release CSV and of the compressed new data.
MergeVals(c) == IF c = "r" THEN {None, "N1"} ELSE {"", "B7"}

MergeRows == {[icao |-> i, time |-> tm, r |-> a, t |-> b] :
                 i \in Icaos, tm \in Times,
                 a \in MergeVals("r"), b \in MergeVals("t")}

\* The base release may be an older one without the column t, or one with
\* a column the new data does not have.
WithoutColumn(row, c) == [x \in (DOMAIN row) \ {c} |-> row[x]]

WithColumn(row, c, v) == [x \in (DOMAIN row) \cup {c} |-> IF x = c THEN v ELSE row[x]]

BaseFrames(n) ==
    LET full == SeqsUpTo(MergeRows, n)
    IN  full
        \cup {[i \in 1..Len(df) |-> WithoutColumn(df[i], "t")] : df \in full}
        \cup {[i \in 1..Len(df) |-> WithColumn(df[i], "old", "x")] : df \in full}

\* The new data holds one row per icao.
NewFrames(n) ==
    {df \in SeqsUpTo(MergeRows, n) :
        \A i, j \in 1..Len(df) : df[i].icao = df[j].icao => i = j}

Columns(df) == UNION {DOMAIN df[i] : i \in 1..Len(df)}

\* with_columns(pl.lit(None).alias(col)) for every column of cols missing.
AddMissingColumns(df, cols) ==
    [i \in 1..Len(df) |->
        [c \in (DOMAIN df[i]) \cup cols |->
            IF c \in DOMAIN df[i] THEN df[i][c] ELSE None]]

\* unique(subset=["icao"], keep="first")
UniqueByIcao_KeepFirst(df) ==
    {i \in 1..Len(df) : \A j \in 1..(i - 1) : df[j].icao # df[i].icao}

\* unique(subset=["icao"], keep="last"): the indices of the rows kept.
UniqueByIcao(df) ==
    {i \in 1..Len(df) : \A j \in (i + 1)..Len(df) : df[j].icao # df[i].icao}

M_Init ==
    /\ G_Idle /\ A_Idle /\ P_Idle /\ O_Idle /\ R_Idle /\ N_Idle
    /\ m_pc = "merge"
    /\ base_df \in BaseFrames(MaxBaseRows)
    /\ compressed_df \in NewFrames(MaxNewRows)
    /\ m_outcome = "none"
    /\ m_combined = <<>>

\* Lines 86-136.  "no_base": the download gave no file.  "raised": the
\* download, read_csv or concat raised and the exception was swallowed.
\* "merged": the frames were concatenated and deduplicated by icao; unique
\* gives its rows in any order.
M_DownloadAndMerge ==
    /\ m_pc = "merge"
    /\ \E outcome \in {"no_base", "raised", "merged"} :
          /\ m_outcome' = outcome
          /\ IF outcome = "merged"
             THEN LET base == AddMissingColumns(base_df, Columns(compressed_df))
                      new == AddMissingColumns(compressed_df, Columns(base_df))
                      both == pl_concat(<<base, new>>)
                  IN  \E order \in Orders(UniqueByIcao(both)) :
                         m_combined' = [i \in 1..Len(order) |-> both[order[i]]]
             ELSE m_combined' = compressed_df
    /\ m_pc' = "sort"
    /\ UNCHANGED <<base_df, compressed_df, g_vars, a_vars, p_vars, o_vars, r_vars, n_vars>>

\* Lines 228-235 of main: sort by time and write the final CSV.
M_SortAndWrite ==
    /\ m_pc = "sort"
    /\ m_combined' \in SortByTime(m_combined)
    /\ m_pc' = "written"
    /\ UNCHANGED <<base_df, compressed_df, m_outcome, g_vars, a_vars, p_vars,
                   o_vars, r_vars, n_vars>>

M_Next ==
    \/ M_DownloadAndMerge
    \/ M_SortAndWrite

SpecMerge == M_Init /\ [][M_Next]_vars

IcaosOf(df) == {df[i].icao : i \in 1..Len(df)}

\* C9: after the baseline merge, every icao of both the base release and the
\* new data has exactly one row in the output, and that row holds the new
\* data's values, whatever the times of the two rows.
C9_NewDataWins ==
    m_pc \in {"sort", "written"} =>
        \A k \in 1..Len(compressed_df) :
            compressed_df[k].icao \in IcaosOf(base_df) =>
                \E i \in 1..Len(m_combined) :
                    /\ m_combined[i].icao = compressed_df[k].icao
                    /\ \A c \in DOMAIN compressed_df[k] :
                          m_combined[i][c] = compressed_df[k][c]
                    /\ \A j \in 1..Len(m_combined) :
                          m_combined[j].icao = compressed_df[k].icao => j = i

C9_Witness ==
    /\ m_pc = "written"
    /\ m_outcome = "merged"
    /\ Len(m_combined) = 2
    /\ \E k \in 1..Len(compressed_df), b \in 1..Len(base_df) :
          /\ base_df[b].icao = compressed_df[k].icao
          /\ base_df[b].time > compressed_df[k].time
          /\ base_df[b].r # compressed_df[k].r

(***************************************************************************)
(* Specification SpecIdem: compress_multi_icao_df on a raw frame, then on  *)
(* its own result.                                                         *)
(***************************************************************************)
\* compress_multi_icao_df over the frame the first call returned.
A_CompressAgain ==
    /\ a_pc = "compressed"
    /\ LET frame == Range(df_compressed)
       IN  \E order \in Orders(QuickDedup(frame)) :
              df_again' = CompressMultiIcaoDf(frame, order)
    /\ a_pc' = "recompressed"
    /\ UNCHANGED <<a_df, df_compressed, chunk_files, compressed_chunks, combined,
                   g_vars, p_vars, o_vars, r_vars, m_vars, d_vars>>

I_Next ==
    \/ A_CompressWhole
    \/ A_CompressAgain

SpecIdem == A_Init /\ [][I_Next]_vars

\* C11: compress_multi_icao_df applied to its own result returns the same
\* set of rows (icao, time and identity-field values).
C11_Idempotent ==
    a_pc = "recompressed" =>
        /\ Range(df_again) = Range(df_compressed)
        /\ Len(df_again) = Len(df_compressed)

C11_Witness ==
    /\ a_pc = "recompressed"
    /\ Cardinality(a_df) = 3
    /\ Len(df_compressed) = 2
    /\ \E row \in a_df : row.r = None

(***************************************************************************)
(* download_adsb_data_to_parquet.py: process_file.                         *)
(*                                                                         *)
(* A trace document is a JSON object.  Of its keys the model keeps icao,   *)
(* year, timestamp and trace.  icao and year hold a string, Absent when    *)
(* the key is missing, None when it is null.  timestamp and trace hold a   *)
(* record [kind, val], kind being "absent", "null" or the JSON type.  A    *)
(* row of trace is its time offset and whether it has its 14 elements.     *)
(***************************************************************************)
Absent == "<absent>"

DocIcaos == {Absent, None, "a1"}

DocYears == {Absent, None, "", "2005", "n/a"}

DocTimestamps == {[kind |-> "absent", val |-> 0], [kind |-> "null", val |-> 0]}
                    \cup {[kind |-> "number", val |-> ts] : ts \in Times}

TraceRows == {[time_offset |-> o, complete |-> c] : o \in 0..1, c \in BOOLEAN}

DocTraces(n) == {[kind |-> "absent", val |-> <<>>], [kind |-> "null", val |-> <<>>]}
                  \cup {[kind |-> "list", val |-> rows] : rows \in SeqsUpTo(TraceRows, n)}

Documents(n) == [icao : DocIcaos, year : DocYears,
                 timestamp : DocTimestamps, trace : DocTraces(n)]

\* data.get(key, default) for a string-valued key.
DictGet(data, key, default) == IF data[key] = Absent THEN default ELSE data[key]

\* data.get(key, None) for timestamp and trace: whether it gives None.
GetIsNone(data, key) == data[key].kind \in {"absent", "null"}

\* int(v) raises ValueError or TypeError.
IntRaises(v) == v \notin {"0", "2005"}

\* The rows of a trace: one per element (lines 258-348); row[13] raises
\* IndexError on a row that is too short.
TraceRaises(trace_data) == \E i \in 1..Len(trace_data) : ~trace_data[i].complete

InsertRows(icao, timestamp, trace_data) ==
    [i \in 1..Len(trace_data) |->
        [time |-> timestamp + trace_data[i].time_offset, icao |-> icao]]

Returned(rows) == [raised |-> FALSE, rows |-> rows]

Raised == [raised |-> TRUE, rows |-> <<>>]

\* process_file on the document of a file, in the order of its statements.
process_file(data) ==
    LET icao == DictGet(data, "icao", None)
    IN  IF icao = None THEN Returned(<<>>)
        ELSE IF IntRaises(DictGet(data, "year", "0")) THEN Raised
        ELSE IF GetIsNone(data, "timestamp") \/ GetIsNone(data, "trace") THEN Returned(<<>>)
        ELSE IF TraceRaises(data.trace.val) THEN Raised
        ELSE Returned(InsertRows(icao, data.timestamp.val, data.trace.val))

(***************************************************************************)
(* Specification SpecParse: process_file on every document.                *)
(***************************************************************************)
PF_Init ==
    /\ PF_OthersIdle
    /\ pf_pc = "call"
    /\ pf_data \in Documents(MaxTraceRows)
    /\ pf_result = <<>>

PF_ProcessFile ==
    /\ pf_pc = "call"
    /\ pf_result' = process_file(pf_data)
    /\ pf_pc' = "done"
    /\ UNCHANGED pf_data
    /\ PF_Frame

PF_Next == PF_ProcessFile

SpecParse == PF_Init /\ [][PF_Next]_vars

LacksKey(data) ==
    \/ data.icao \in {Absent, None}
    \/ GetIsNone(data, "timestamp")
    \/ GetIsNone(data, "trace")

\* C12: a document that lacks icao, timestamp or trace yields zero rows from
\* process_file, and process_file raises no exception.
C12_LackingDocumentYieldsNoRows ==
    (pf_pc = "done" /\ LacksKey(pf_data)) => pf_result = Returned(<<>>)

(***************************************************************************)
(* process_icao_chunk.py: process_date_range and process_chunk.            *)
(*                                                                         *)
(* The extract directory of a day holds at most one trace file per icao.   *)
(* A trace file is [day, icao, kind]: kind tells its document ("rows1":    *)
(* one trace row, "rows2": two, "bad": a row that makes process_file       *)
(* raise), "nofile" that the day has no file for the icao.                 *)
(***************************************************************************)
FileKinds == {"rows1", "rows2", "bad"}

NoFile(icao) == [day |-> 0, icao |-> icao, kind |-> "nofile"]

\* The documents' icao strings.
IcaoName(icao) == IF icao = <<1>> THEN "a1" ELSE "a2"

\* The document of a trace file.
DocumentOf(file) ==
    [icao |-> IcaoName(file.icao), year |-> "2005",
     timestamp |-> [kind |-> "number", val |-> file.day],
     trace |-> [kind |-> "list",
                val |-> IF file.kind = "rows1" THEN <<[time_offset |-> 0, complete |-> TRUE]>>
                        ELSE IF file.kind = "rows2"
                             THEN <<[time_offset |-> 0, complete |-> TRUE],
                                    [time_offset |-> 1, complete |-> TRUE]>>
                        ELSE <<[time_offset |-> 0, complete |-> FALSE]>>]]

\* The extract directory of day d: missing, or a trace map.
ExtractDirs(d) ==
    {[isdir |-> FALSE, trace_map |-> [i \in Icaos |-> NoFile(i)]]}
    \cup {[isdir |-> TRUE, trace_map |-> m] :
            m \in {f \in [Icaos -> [day : {0, d}, icao : Icaos, kind : FileKinds \cup {"nofile"}]] :
                      \A i \in Icaos : /\ f[i].icao = i
                                       /\ (f[i].kind = "nofile") = (f[i].day = 0)}}

\* dict.update: the entries of trace_map replace those of combined.
DictUpdate(combined_map, trace_map) ==
    [i \in Icaos |-> IF trace_map[i].kind # "nofile" THEN trace_map[i] ELSE combined_map[i]]

\* Lines 270-286: the combined trace map of the days from d on.
RECURSIVE CombinedTraceMap(_, _, _)
CombinedTraceMap(dirs, d, combined_map) ==
    IF d > Len(dirs) THEN combined_map
    ELSE CombinedTraceMap(dirs, d + 1,
             IF dirs[d].isdir THEN DictUpdate(combined_map, dirs[d].trace_map)
             ELSE combined_map)

\* Lines 151-154: the trace files of the icaos of the chunk.
TraceFiles(chunk_icaos, trace_map) ==
    LET found == FilterIdx(chunk_icaos,
                           {i \in 1..Len(chunk_icaos) : trace_map[chunk_icaos[i]].kind # "nofile"}, 1)
    IN  [i \in 1..Len(found) |-> trace_map[found[i]]]

\* A safe_process without the try.
safe_process_NoCatch(data) == process_file(data)

\* safe_process: process_file, [] when it raises.
safe_process(data) ==
    IF process_file(data).raised THEN Returned(<<>>) ELSE process_file(data)

\* finally without the close.
WriterAfterFinally_NoClose(writer) == writer

\* Lines 209-211: finally: if writer: writer.close().
WriterAfterFinally(writer) == IF writer = "open" THEN "closed" ELSE writer

\* The steps of a flush (rows_to_table, ParquetWriter(...), write_table) and
\* the one that raises, "none" when none does.
Faults == {"none", "table", "open", "write"}

PC_Init ==
    /\ PC_OthersIdle
    /\ pc_pc = "range"
    /\ pc_dirs \in [1..MaxRangeDays -> UNION {ExtractDirs(d) : d \in 1..MaxRangeDays}]
    /\ \A d \in 1..MaxRangeDays : pc_dirs[d] \in ExtractDirs(d)
    /\ pc_icaos \in {<< <<1>>, <<2>> >>, << <<2>>, <<1>> >>, << <<1>> >>}
    /\ pc_total_chunks \in 1..TotalChunks
    /\ pc_chunk_id \in 0..(pc_total_chunks - 1)
    /\ pc_trace_map = <<>>
    /\ pc_trace_files = <<>>
    /\ pc_offset = 0
    /\ pc_results = <<>>
    /\ pc_batch_rows = <<>>
    /\ pc_writer = "none"
    /\ pc_opened = 0
    /\ pc_closed = 0
    /\ pc_written = <<>>
    /\ pc_fault = "none"
    /\ pc_parsed = {}

\* process_date_range, lines 269-297: build the combined trace map; without
\* any trace file return None.
PC_ProcessDateRange ==
    /\ pc_pc = "range"
    /\ pc_trace_map' = CombinedTraceMap(pc_dirs, 1, [i \in Icaos |-> NoFile(i)])
    /\ pc_pc' = IF \A i \in Icaos : pc_trace_map'[i].kind = "nofile"
                THEN "returned" ELSE "chunk"
    /\ UNCHANGED <<pc_dirs, pc_icaos, pc_chunk_id, pc_total_chunks, pc_trace_files,
                   pc_offset, pc_results, pc_batch_rows, pc_writer, pc_opened,
                   pc_closed, pc_written, pc_fault, pc_parsed>>
    /\ PC_Frame

\* process_chunk, lines 143-168.
PC_SelectFiles ==
    /\ pc_pc = "chunk"
    /\ LET chunk_icaos == get_chunk_icaos(pc_icaos, pc_chunk_id, pc_total_chunks)
       IN  /\ pc_trace_files' = TraceFiles(chunk_icaos, pc_trace_map)
           /\ pc_pc' = IF pc_trace_files' = <<>> THEN "returned" ELSE "batch"
    /\ UNCHANGED <<pc_dirs, pc_icaos, pc_chunk_id, pc_total_chunks, pc_trace_map,
                   pc_offset, pc_results, pc_batch_rows, pc_writer, pc_opened,
                   pc_closed, pc_written, pc_fault, pc_parsed>>
    /\ PC_Frame

\* Lines 173-177: the next batch of files goes through executor.map; an
\* exception of safe_process would leave the try block.
PC_MapBatch ==
    /\ pc_pc = "batch"
    /\ pc_offset < Len(pc_trace_files)
    /\ LET last == Min(pc_offset + FilesPerBatch, Len(pc_trace_files))
           batch_files == SubSeq(pc_trace_files, pc_offset + 1, last)
           results == [i \in 1..Len(batch_files) |-> safe_process(DocumentOf(batch_files[i]))]
       IN  /\ pc_parsed' = pc_parsed \cup Range(batch_files)
           /\ pc_offset' = last
           /\ IF \E i \in 1..Len(results) : results[i].raised
              THEN /\ pc_fault' = "parse"
                   /\ pc_pc' = "finally"
                   /\ pc_results' = <<>>
              ELSE /\ pc_fault' = pc_fault
                   /\ pc_pc' = "rows"
                   /\ pc_results' = [i \in 1..Len(results) |-> results[i].rows]
    /\ UNCHANGED <<pc_dirs, pc_icaos, pc_chunk_id, pc_total_chunks, pc_trace_map,
                   pc_trace_files, pc_batch_rows, pc_writer, pc_opened, pc_closed,
                   pc_written>>
    /\ PC_Frame

\* The flush of lines 183-190 and 201-206 on the rows given: the step that
\* raises, if any, is fault.
PC_Flush(rows, fault, next_pc) ==
    /\ fault = "open" => pc_writer = "none"
    /\ pc_fault' = fault
    /\ pc_writer' = IF fault \in {"table", "open"} THEN pc_writer ELSE "open"
    /\ pc_opened' = IF fault \notin {"table", "open"} /\ pc_writer = "none"
                    THEN pc_opened + 1 ELSE pc_opened
    /\ pc_written' = IF fault = "none" THEN pc_written \o rows ELSE pc_written
    /\ pc_batch_rows' = IF fault = "none" THEN <<>> ELSE rows
    /\ pc_pc' = IF fault = "none" THEN next_pc ELSE "finally"

\* A buffer that is never full.
BatchFull_Never(n) == FALSE

\* Line 182: len(batch_rows) >= BATCH_SIZE.
BatchFull(n) == n >= BATCH_SIZE

\* Lines 177-195: the rows of the next file of the batch.
PC_ConsumeRows ==
    /\ pc_pc = "rows"
    /\ pc_results # <<>>
    /\ LET rows == pc_batch_rows \o Head(pc_results)
       IN  IF Head(pc_results) # <<>> /\ BatchFull(Len(rows))
           THEN \E fault \in Faults : PC_Flush(rows, fault, "rows")
           ELSE /\ pc_batch_rows' = rows
                /\ UNCHANGED <<pc_writer, pc_opened, pc_written, pc_fault, pc_pc>>
    /\ pc_results' = Tail(pc_results)
    /\ UNCHANGED <<pc_dirs, pc_icaos, pc_chunk_id, pc_total_chunks, pc_trace_map,
                   pc_trace_files, pc_offset, pc_closed, pc_parsed>>
    /\ PC_Frame

\* Line 197: the batch is consumed.
PC_BatchDone ==
    /\ pc_pc = "rows"
    /\ pc_results = <<>>
    /\ pc_pc' = "batch"
    /\ UNCHANGED <<pc_dirs, pc_icaos, pc_chunk_id, pc_total_chunks, pc_trace_map,
                   pc_trace_files, pc_offset, pc_results, pc_batch_rows, pc_writer,
                   pc_opened, pc_closed, pc_written, pc_fault, pc_parsed>>
    /\ PC_Frame

\* Lines 199-207: the remaining rows.
PC_WriteRemaining ==
    /\ pc_pc = "batch"
    /\ pc_offset = Len(pc_trace_files)
    /\ IF pc_batch_rows # <<>>
       THEN \E fault \in Faults : PC_Flush(pc_batch_rows, fault, "finally")
       ELSE /\ pc_pc' = "finally"
            /\ UNCHANGED <<pc_batch_rows, pc_writer, pc_opened, pc_written, pc_fault>>
    /\ UNCHANGED <<pc_dirs, pc_icaos, pc_chunk_id, pc_total_chunks, pc_trace_map,
                   pc_trace_files, pc_offset, pc_results, pc_closed, pc_parsed>>
    /\ PC_Frame

\* Lines 209-218: the finally clause, then the return or the exception.
PC_Finally ==
    /\ pc_pc = "finally"
    /\ pc_writer' = WriterAfterFinally(pc_writer)
    /\ pc_closed' = IF pc_writer' = "closed" /\ pc_writer = "open"
                    THEN pc_closed + 1 ELSE pc_closed
    /\ pc_pc' = IF pc_fault = "none" THEN "returned" ELSE "raised"
    /\ UNCHANGED <<pc_dirs, pc_icaos, pc_chunk_id, pc_total_chunks, pc_trace_map,
                   pc_trace_files, pc_offset, pc_results, pc_batch_rows, pc_opened,
                   pc_written, pc_fault, pc_parsed>>
    /\ PC_Frame

PC_Next ==
    \/ PC_ProcessDateRange
    \/ PC_SelectFiles
    \/ PC_MapBatch
    \/ PC_ConsumeRows
    \/ PC_BatchDone
    \/ PC_WriteRemaining
    \/ PC_Finally

SpecChunk == PC_Init /\ [][PC_Next]_vars

\* The trace files of the extract directories of the range.
FilesOfRange ==
    {pc_dirs[d].trace_map[i] : d \in 1..Len(pc_dirs), i \in Icaos} \ {NoFile(i) : i \in Icaos}

ChunkIcaos == Range(get_chunk_icaos(pc_icaos, pc_chunk_id, pc_total_chunks))

RowsOfFile(file) == process_file(DocumentOf(file)).rows

IsSubSeq(rows, frame) ==
    \E k \in 0..(Len(frame) - Len(rows)) : SubSeq(frame, k + 1, k + Len(rows)) = rows

\* C13: in date-range mode every trace file of an icao of the partition,
\* on every day of the range, is parsed and its rows are in the output.
C13_EveryDayParsed ==
    pc_pc = "returned" =>
        \A file \in FilesOfRange :
            file.icao \in ChunkIcaos =>
                /\ file \in pc_parsed
                /\ IsSubSeq(RowsOfFile(file), pc_written)

\* C18: process_chunk opens at most one parquet writer, and an opened
\* writer is closed exactly once before the call ends, by return or by an
\* exception of the table conversion, of the constructor or of a write.
C18_WriterClosedOnce ==
    /\ pc_opened <= 1
    /\ pc_closed <= pc_opened
    /\ pc_pc \in {"returned", "raised"} => pc_closed = pc_opened /\ pc_writer # "open"

C18_Witness ==
    /\ pc_pc = "raised"
    /\ pc_fault = "write"
    /\ pc_written # <<>>
    /\ pc_opened = 1
    /\ pc_closed = 1

RECURSIVE RowsOfFiles(_)
RowsOfFiles(files) ==
    IF files = <<>> THEN <<>>
    ELSE (IF process_file(DocumentOf(files[1])).raised THEN <<>> ELSE RowsOfFile(files[1]))
           \o RowsOfFiles(Tail(files))

\* C19: a trace file whose parsing raises contributes no rows and does not
\* end process_chunk: the call raises only from a flush, and when it returns
\* the output holds the rows of every other file of the partition.
C19_BadFileSkipped ==
    /\ pc_fault # "parse"
    /\ pc_pc = "raised" => pc_fault \in {"table", "open", "write"}
    /\ pc_pc = "returned" => pc_written = RowsOfFiles(pc_trace_files)

C19_Witness ==
    /\ pc_pc = "returned"
    /\ Len(pc_trace_files) = 2
    /\ pc_trace_files[1].kind = "bad"
    /\ pc_trace_files[2].kind = "rows2"
    /\ Len(pc_written) = 2

(***************************************************************************)
(* download_adsb_data_to_parquet.py: fetch_releases.                       *)
(***************************************************************************)
max_retries == 10
retry_delay == 60

\* What a page request can give: status 200 with releases or with an empty
\* list, another status urlopen returns, or an exception of urlopen
\* (HTTPError for 404 and for 5xx, URLError, a timeout).
Outcomes == {"ok_data", "ok_empty", "status", "http_404", "http_5xx", "timeout"}

Failures == Outcomes \ {"ok_data", "ok_empty"}

\* A loop that allows one attempt more.
GivesUp_OneMore(attempt) == attempt > max_retries

\* Lines 102-107 and 110-115: the last attempt of range(1, max_retries + 1).
GivesUp(attempt) == attempt >= max_retries

F_Init ==
    /\ F_OthersIdle
    /\ f_pc = "request"
    /\ f_page = 1
    /\ f_attempt = 1
    /\ f_outcome = "none"
    /\ f_tries = 0
    /\ f_sleeps = <<>>
    /\ f_releases = <<>>

\* Lines 93-121: one attempt for the page.  The listing has MaxPages pages
\* of releases at most.
F_Request ==
    /\ f_pc = "request"
    /\ \E outcome \in Outcomes :
          /\ outcome = "ok_data" => f_page <= MaxPages
          /\ f_outcome' = outcome
          /\ IF outcome = "ok_data"
             THEN /\ f_releases' = Append(f_releases, f_page)
                  /\ f_page' = f_page + 1
                  /\ f_attempt' = 1
                  /\ f_tries' = 0
                  /\ f_sleeps' = <<>>
                  /\ f_pc' = "request"
             ELSE /\ f_tries' = f_tries + 1
                  /\ f_pc' = IF outcome = "ok_empty" \/ GivesUp(f_attempt)
                             THEN "returned" ELSE "sleep"
                  /\ UNCHANGED <<f_releases, f_page, f_attempt, f_sleeps>>
    /\ F_Frame

\* Lines 104 and 112: time.sleep(retry_delay), then the next attempt.
F_Sleep ==
    /\ f_pc = "sleep"
    /\ f_sleeps' = Append(f_sleeps, retry_delay)
    /\ f_attempt' = f_attempt + 1
    /\ f_pc' = "request"
    /\ UNCHANGED <<f_page, f_outcome, f_tries, f_releases>>
    /\ F_Frame

F_Next ==
    \/ F_Request
    \/ F_Sleep

\* Every request returns or raises, and every sleep ends.
SpecFetch == F_Init /\ [][F_Next]_vars /\ WF_vars(F_Next)

\* C14: a page request that fails with HTTP 404 is not retried: the
\* function is over after it, without a wait and a further attempt.
C14_NotFoundNotRetried == f_outcome = "http_404" => f_pc = "returned"

F_Bounded ==
    /\ f_tries <= max_retries
    /\ f_attempt <= max_retries
    /\ Len(f_sleeps) = f_attempt - 1
    /\ \A i \in 1..Len(f_sleeps) : f_sleeps[i] = retry_delay
    /\ (f_tries = max_retries /\ f_outcome \in Failures) => f_pc = "returned"
    /\ f_outcome = "ok_empty" => f_pc = "returned"

\* C15: a page is requested 10 times at most, with a wait of 60 seconds
\* between two attempts; after the 10th failure of a page, and after an
\* empty page, the function returns; and it always returns.
C15_BoundedRetries == []F_Bounded /\ <>(f_pc = "returned")

C15_Witness ==
    /\ f_pc = "returned"
    /\ f_page = 2
    /\ f_tries = max_retries
    /\ Len(f_sleeps) = max_retries - 1
    /\ f_outcome = "http_5xx"

(***************************************************************************)
(* download_adsb_data_to_parquet.py: download_asset.                       *)
(*                                                                         *)
(* The file of a path is "absent", "complete" (the whole asset) or         *)
(* "partial" (the start of it).                                            *)
(***************************************************************************)
FilePaths == {"asset.tar.aa", "asset.tar.ab"}

\* What the request of an absent file can give: the body saved; the
\* connection lost while the body is read, after open(file_path, "wb"); a
\* status other than 200; the 40 seconds alarm; another exception.
DownloadOutcomes == {"saved", "cut", "status", "alarm", "error"}

\* A call that never skips.
PathExists_Never(content) == FALSE

\* os.path.exists(file_path)
PathExists(content) == content # "absent"

DL_Init ==
    /\ DL_OthersIdle
    /\ dl_fs \in [FilePaths -> {"absent", "complete"}]
    /\ dl_requests = 0
    /\ dl_log = <<>>

\* download_asset(asset_url, file_path), lines 125-159.
DL_DownloadAsset ==
    /\ Len(dl_log) < MaxCalls
    /\ \E file_path \in FilePaths :
          IF PathExists(dl_fs[file_path])
          THEN /\ dl_log' = Append(dl_log, [file_path |-> file_path,
                                             before |-> dl_fs[file_path],
                                             after |-> dl_fs[file_path],
                                             requests |-> 0, result |-> TRUE])
               /\ UNCHANGED <<dl_fs, dl_requests>>
          ELSE \E outcome \in DownloadOutcomes :
                  LET after == IF outcome = "saved" THEN "complete"
                               ELSE IF outcome = "cut" THEN "partial"
                               ELSE dl_fs[file_path]
                  IN  /\ dl_fs' = [dl_fs EXCEPT ![file_path] = after]
                      /\ dl_requests' = dl_requests + 1
                      /\ dl_log' = Append(dl_log, [file_path |-> file_path,
                                                    before |-> dl_fs[file_path],
                                                    after |-> after,
                                                    requests |-> 1,
                                                    result |-> (outcome = "saved")])
    /\ DL_Frame

DL_Next == DL_DownloadAsset

SpecDownload == DL_Init /\ [][DL_Next]_vars

\* C16: a call of download_asset for a file that exists returns True,
\* issues no request and leaves the file as it is.
C16_ExistingFileSkipped ==
    \A k \in 1..Len(dl_log) :
        dl_log[k].before # "absent" =>
            /\ dl_log[k].result = TRUE
            /\ dl_log[k].requests = 0
            /\ dl_log[k].after = dl_log[k].before

C16_Witness ==
    /\ Len(dl_log) = 2
    /\ dl_log[1].file_path = dl_log[2].file_path
    /\ dl_log[1].before = "absent"
    /\ dl_log[1].result = TRUE
    /\ dl_log[2].before = "complete"
    /\ dl_log[2].requests = 0
    /\ dl_requests = 1

(***************************************************************************)
(* download_adsb_data_to_parquet.py: extract_split_archive.                *)
(*                                                                         *)
(* An extract directory is "absent", "complete" (the whole archive) or     *)
(* "partial" (made by os.makedirs, with what tar wrote before it failed).  *)
(***************************************************************************)
ExtractDirNames == {"v1.tar_0", "v2.tar_0"}

\* What the pipeline can give: tar succeeds; tar fails
\* (CalledProcessError); Popen or run raises another exception.
ExtractOutcomes == {"extracted", "tar_failed", "raised"}

\* extract_split_archive(file_paths, extract_dir), lines 162-221.
E_Init ==
    /\ E_OthersIdle
    /\ e_dirs \in [ExtractDirNames -> {"absent", "complete"}]
    /\ e_log = <<>>

E_ExtractSplitArchive ==
    /\ Len(e_log) < MaxCalls
    /\ \E extract_dir \in ExtractDirNames :
          IF e_dirs[extract_dir] # "absent"
          THEN /\ e_log' = Append(e_log, [extract_dir |-> extract_dir,
                                           before |-> e_dirs[extract_dir],
                                           after |-> e_dirs[extract_dir],
                                           result |-> "True"])
               /\ UNCHANGED e_dirs
          ELSE \E outcome \in ExtractOutcomes :
                  LET after == IF outcome = "extracted" THEN "complete" ELSE "partial"
                  IN  /\ e_dirs' = [e_dirs EXCEPT ![extract_dir] = after]
                      /\ e_log' = Append(e_log, [extract_dir |-> extract_dir,
                                                  before |-> e_dirs[extract_dir],
                                                  after |-> after,
                                                  result |-> IF outcome = "extracted" THEN "True"
                                                             ELSE IF outcome = "tar_failed" THEN "False"
                                                             ELSE "raised"])
    /\ E_Frame

E_Next == E_ExtractSplitArchive

SpecExtract == E_Init /\ [][E_Next]_vars

\* C17: a partial extraction is never taken for a complete one: a call
\* whose decompression fails reports failure, and no call, that one or a
\* later one for the same directory, reports success on a directory that
\* holds a partial extraction.
C17_PartialNeverComplete ==
    \A k \in 1..Len(e_log) :
        /\ (e_log[k].before = "absent" /\ e_log[k].after = "partial") => e_log[k].result # "True"
        /\ e_log[k].result = "True" => e_log[k].after = "complete"

(***************************************************************************)
(* worker.py and process_icao_chunk.py: where a map task writes its        *)
(* intermediate output.                                                    *)
(***************************************************************************)
\* trigger_pipeline.py writes run-<time>-<uuid>; worker.py defaults to
\* "default".
RunIds == {"run-20240101T000000-0a1b2c3d", "run-20240102T000000-4e5f6a7b", "default"}

\* strftime("%Y-%m-%d") of day d.
DateStr(d) == IF d = 1 THEN "2024-01-01" ELSE IF d = 2 THEN "2024-01-02" ELSE "2024-01-03"

\* The decimal digits of a chunk id.
IntStr(n) == IF n = 0 THEN "0" ELSE IF n = 1 THEN "1" ELSE IF n = 2 THEN "2" ELSE "3"

\* worker.py line 80.
S3Key(run_id, start_date_str, end_date_str) ==
    "intermediate/" \o run_id \o "/chunk_" \o start_date_str \o "_" \o end_date_str \o ".csv.gz"

CHUNK_OUTPUT_DIR == "./data/output/adsb_chunks"

\* process_chunk line 163.
OutputPath(chunk_id, output_id) ==
    CHUNK_OUTPUT_DIR \o "/chunk_" \o IntStr(chunk_id) \o "_" \o output_id \o ".parquet"

\* process_date_range lines 263-265.
ManifestId(start_date, end_date) == DateStr(start_date) \o "_" \o DateStr(end_date)

MapTask(kind, run_id, chunk_id, total_chunks, start_date, end_date) ==
    [kind |-> kind, run_id |-> run_id, chunk_id |-> chunk_id,
     total_chunks |-> total_chunks, start_date |-> start_date, end_date |-> end_date]

K_Init ==
    /\ K_OthersIdle
    /\ k_writes = <<>>

\* worker.py main: the chunk of a run, uploaded to S3.
K_Worker ==
    /\ Len(k_writes) < MaxTasks
    /\ \E run_id \in RunIds, start_date \in 1..MaxKeyDays :
       \E end_date \in start_date..MaxKeyDays :
          k_writes' = Append(k_writes,
              [task |-> MapTask("worker", run_id, 0, 1, start_date, end_date),
               store |-> "s3",
               location |-> S3Key(run_id, DateStr(start_date), DateStr(end_date))])
    /\ K_Frame

\* process_icao_chunk.py main, date range mode: process_date_range, then
\* process_chunk.  The run of the workflow is no input of the program.
K_ProcessDateRange ==
    /\ Len(k_writes) < MaxTasks
    /\ \E run_id \in RunIds, total_chunks \in 1..MaxKeyChunks, start_date \in 1..MaxKeyDays :
       \E chunk_id \in 0..(total_chunks - 1), end_date \in start_date..MaxKeyDays :
          k_writes' = Append(k_writes,
              [task |-> MapTask("date_range", run_id, chunk_id, total_chunks, start_date, end_date),
               store |-> "disk",
               location |-> OutputPath(chunk_id, ManifestId(start_date, end_date))])
    /\ K_Frame

\* process_icao_chunk.py main, daily mode: process_single_day, then
\* process_chunk.
K_ProcessSingleDay ==
    /\ Len(k_writes) < MaxTasks
    /\ \E run_id \in RunIds, total_chunks \in 1..MaxKeyChunks, target_day \in 1..MaxKeyDays :
       \E chunk_id \in 0..(total_chunks - 1) :
          k_writes' = Append(k_writes,
              [task |-> MapTask("single_day", run_id, chunk_id, total_chunks, target_day, target_day),
               store |-> "disk",
               location |-> OutputPath(chunk_id, DateStr(target_day))])
    /\ K_Frame

K_Next ==
    \/ K_Worker
    \/ K_ProcessDateRange
    \/ K_ProcessSingleDay

SpecKeys == K_Init /\ [][K_Next]_vars

\* The tasks differ in run id, partition id or chunk boundaries.
TasksDiffer(t, u) ==
    \/ t.run_id # u.run_id
    \/ t.chunk_id # u.chunk_id
    \/ t.start_date # u.start_date
    \/ t.end_date # u.end_date

\* C20: two map tasks that differ in run id, partition id or chunk
\* boundaries never write to the same S3 key or the same chunk parquet
\* path.
C20_DistinctTasksDistinctLocations ==
    \A i, j \in 1..Len(k_writes) :
        (i # j /\ TasksDiffer(k_writes[i].task, k_writes[j].task)) =>
            ~ (/\ k_writes[i].store = k_writes[j].store
               /\ k_writes[i].location = k_writes[j].location)

(***************************************************************************)
(* The order of the final dataset, and the baseline records.               *)
(***************************************************************************)
\* The order of two icao strings: the order of their code points.
IcaoLeq(a, b) ==
    \/ \E k \in 1..Min(Len(a), Len(b)) :
          /\ a[k] < b[k]
          /\ \A h \in 1..(k - 1) : a[h] = b[h]
    \/ /\ Len(a) <= Len(b)
       /\ \A h \in 1..Len(a) : a[h] = b[h]

IsTimeIcaoSorted(df) ==
    \A i \in 1..Len(df) : \A j \in (i + 1)..Len(df) :
        \/ df[i].time < df[j].time
        \/ df[i].time = df[j].time /\ IcaoLeq(df[i].icao, df[j].icao)

\* C21: the final CSV that combine_chunks_to_csv.main writes is sorted by
\* time, and rows of equal time are ordered by icao.
C21_SortedByTimeThenIcao ==
    m_pc = "written" => IsTimeIcaoSorted(m_combined)

\* C29: when the baseline merge runs, the dataset it returns holds every
\* icao of the base release (a failure that is swallowed drops none).
C29_BaselineKept ==
    (m_pc \in {"sort", "written"} /\ m_outcome # "no_base") =>
        IcaosOf(base_df) \subseteq IcaosOf(m_combined)

(***************************************************************************)
(* Further properties of compress_df_polars (SpecGroup).                   *)
(***************************************************************************)
\* The place of the first row of df with signature s.
FirstPos(df, s) ==
    CHOOSE i \in 1..Len(df) :
        /\ Signature(df[i]) = s
        /\ \A j \in 1..(i - 1) : Signature(df[j]) # s

\* The representatives that survive the filter with the highest count.
BestSurvivors ==
    LET kept == KeepIndices(g_rows_data)
        cnt(i) == SigCount(g_df, g_rows_data[i].signature)
    IN  {i \in kept : \A j \in kept : cnt(j) <= cnt(i)}

\* C22: when several survivors share the highest occurrence count,
\* compress_df_polars returns the one whose signature comes first in the
\* input.
C22_FirstSeenWins ==
    (g_pc = "done" /\ Cardinality(BestSurvivors) > 1) =>
        \A i \in BestSurvivors :
            FirstPos(g_df, Signature(g_result[1]))
              <= FirstPos(g_df, g_rows_data[i].signature)

\* C26: for a non-empty group the domination filter keeps at least one
\* representative, and the 'keep first row' fallback is not executed.
C26_FallbackNeverTaken ==
    g_pc = "done" =>
        /\ NotDominated(g_rows_data) # {}
        /\ g_fallback = FALSE

C26_Witness ==
    /\ g_pc = "done"
    /\ Len(g_rows_data) = 3
    /\ Cardinality(NotDominated(g_rows_data)) = 1
    /\ g_fallback = FALSE

\* The largest number of rows one trace file gives.
MaxFileRows ==
    LET counts == {Len(safe_process(DocumentOf([day |-> 1, icao |-> <<1>>, kind |-> k])).rows) :
                      k \in FileKinds}
    IN  CHOOSE n \in counts : \A m \in counts : m <= n

\* C23: in process_chunk the buffer holds fewer than BATCH_SIZE rows
\* whenever the rows of a file are about to be appended, and never more
\* than BATCH_SIZE - 1 rows plus the rows of one file.
C23_BufferBounded ==
    /\ pc_pc \in {"rows", "batch"} => Len(pc_batch_rows) < BATCH_SIZE
    /\ Len(pc_batch_rows) <= BATCH_SIZE - 1 + MaxFileRows

C23_Witness ==
    /\ pc_pc = "rows"
    /\ pc_batch_rows = <<>>
    /\ Len(pc_written) = BATCH_SIZE - 1 + MaxFileRows
    /\ pc_opened = 1

\* C27: after any sequence of download_asset calls a file exists at a path
\* only if it holds the complete asset, and no call reports success on a
\* file that holds less.
C27_NoPartialFileLeft ==
    /\ \A file_path \in FilePaths : dl_fs[file_path] \in {"absent", "complete"}
    /\ \A k \in 1..Len(dl_log) : dl_log[k].result = TRUE => dl_log[k].after = "complete"

(***************************************************************************)
(* Specification SpecLocal: run_local.main over the date range             *)
(* [1, lr_end), with the commands it runs and the disk they share: the     *)
(* extract directories of the days, the chunk parquet files and the final  *)
(* CSV.                                                                    *)
(*                                                                         *)
(* lr_dirs[d] is the extract directory of day d: whether it exists and the *)
(* icaos it holds a trace file for.  A row of a chunk file carries the day *)
(* of its trace file as its time.                                          *)
(***************************************************************************)
LocalDirs ==
    {[isdir |-> FALSE, icaos |-> {}]} \cup {[isdir |-> TRUE, icaos |-> S] : S \in SUBSET Icaos}

\* The icao manifest of a date chunk.
LocalManifest == << <<1>>, <<2>> >>

\* process_date_range lines 271-286: the days whose extract directory is
\* read, both bounds inclusive.
DaysRead(dirs, start_date, end_date) ==
    {d \in start_date..end_date : d \in DOMAIN dirs /\ dirs[d].isdir}

\* combined_trace_map: the day of the trace file kept for icao, 0 for none
\* (the file of a later day replaces that of an earlier one).
TraceDay(dirs, start_date, end_date, icao) ==
    LET days == {d \in DaysRead(dirs, start_date, end_date) : icao \in dirs[d].icaos}
    IN  IF days = {} THEN 0 ELSE CHOOSE d \in days : \A x \in days : x <= d

\* The chunk file process_chunk writes for a date chunk, [] without trace
\* files.
LocalChunkFile(dirs, chunk_id, total_chunks, start_date, end_date) ==
    LET chunk_icaos == get_chunk_icaos(LocalManifest, chunk_id, total_chunks)
        found == {chunk_icaos[i] : i \in {i \in 1..Len(chunk_icaos) :
                     TraceDay(dirs, start_date, end_date, chunk_icaos[i]) # 0}}
    IN  [chunk_id |-> chunk_id, start |-> start_date, end |-> end_date,
         path |-> OutputPath(chunk_id, ManifestId(start_date, end_date)),
         rows |-> {[icao |-> i, time |-> TraceDay(dirs, start_date, end_date, i),
                    r |-> "N1", t |-> "B7"] : i \in found}]

\* glob of chunk_*_{output_id}.parquet over files named by process_chunk in
\* range mode.
GlobChunks(files, output_id) ==
    {f \in files : f.path = OutputPath(f.chunk_id, output_id)}

\* sorted(...): paths of one-digit chunk ids and ISO dates sort by chunk id,
\* start and end.
PathBefore(f, g) ==
    \/ f.chunk_id < g.chunk_id
    \/ f.chunk_id = g.chunk_id /\ f.start < g.start
    \/ f.chunk_id = g.chunk_id /\ f.start = g.start /\ f.end < g.end

SortedFiles(files) ==
    [k \in 1..Cardinality(files) |->
        CHOOSE f \in files : Cardinality({g \in files : PathBefore(g, f)}) = k - 1]

\* find_chunk_files, lines 151-161: the pattern of the output id, else every
\* parquet file under the chunks directory.
find_chunk_files(files, output_id) ==
    IF GlobChunks(files, output_id) # {}
    THEN SortedFiles(GlobChunks(files, output_id))
    ELSE SortedFiles(files)

\* The position of run_local after the map command of (idx, chunk_id - 1).
LocalAfterMap(idx, chunk_id) ==
    IF chunk_id < lr_chunks THEN [pc |-> "process", idx |-> idx, chunk_id |-> chunk_id]
    ELSE IF idx < Len(lr_date_chunks) THEN [pc |-> "download", idx |-> idx + 1, chunk_id |-> 0]
    ELSE [pc |-> "find", idx |-> idx, chunk_id |-> 0]

LR_Goto(pos) ==
    /\ lr_pc' = pos.pc
    /\ lr_idx' = pos.idx
    /\ lr_chunk_id' = pos.chunk_id

LR_Init ==
    /\ LR_OthersIdle
    /\ lr_end \in 2..MaxLocalDay
    /\ \E chunk_days \in 1..MaxChunkDays :
          lr_date_chunks = GenerateDateChunks(1, lr_end, chunk_days)
    /\ lr_chunks \in 1..MaxLocalChunks
    /\ lr_dirs \in [1..MaxLocalDay -> LocalDirs]
    /\ lr_pc = "download"
    /\ lr_idx = 1
    /\ lr_chunk_id = 0
    /\ lr_files = {}
    /\ lr_reads = <<>>
    /\ lr_selected = <<>>
    /\ lr_loaded = 0
    /\ lr_compressed = <<>>
    /\ lr_csv = <<>>
    /\ lr_deleted = {}

\* run_local lines 117-119: the download command of the date chunk.  The
\* extract directories of its days are on disk already or stay absent.
LR_Download ==
    /\ lr_pc = "download"
    /\ \E rc \in ReturnCodes :
          IF RunCmdExits(rc)
          THEN lr_pc' = "exit" /\ UNCHANGED <<lr_idx, lr_chunk_id>>
          ELSE LR_Goto(LocalAfterMap(lr_idx, 0))
    /\ UNCHANGED <<lr_end, lr_date_chunks, lr_chunks, lr_dirs, lr_files, lr_reads,
                   lr_selected, lr_loaded, lr_compressed, lr_csv, lr_deleted>>
    /\ LR_Frame

\* run_local lines 126-133: process_icao_chunk --start-date --end-date for
\* the next icao chunk: process_date_range, then process_chunk.
LR_Process ==
    /\ lr_pc = "process"
    /\ LET dc == lr_date_chunks[lr_idx]
           file == LocalChunkFile(lr_dirs, lr_chunk_id, lr_chunks, dc.start, dc.end)
       IN  \E rc \in ReturnCodes :
              IF RunCmdExits(rc)
              THEN /\ lr_pc' = "exit"
                   /\ UNCHANGED <<lr_idx, lr_chunk_id, lr_files, lr_reads>>
              ELSE /\ lr_reads' = Append(lr_reads,
                                         [idx |-> lr_idx, chunk_id |-> lr_chunk_id,
                                          days |-> DaysRead(lr_dirs, dc.start, dc.end)])
                   /\ lr_files' = IF file.rows = {} THEN lr_files
                                  ELSE {f \in lr_files : f.path # file.path} \cup {file}
                   /\ LR_Goto(LocalAfterMap(lr_idx, lr_chunk_id + 1))
    /\ UNCHANGED <<lr_end, lr_date_chunks, lr_chunks, lr_dirs, lr_selected, lr_loaded,
                   lr_compressed, lr_csv, lr_deleted>>
    /\ LR_Frame

\* combine_chunks_to_csv.main lines 176-204, called with --start-date,
\* --end-date, --stream and --skip-base (run_local lines 140-150).
LR_FindChunkFiles ==
    /\ lr_pc = "find"
    /\ lr_selected' = find_chunk_files(lr_files, ManifestId(1, lr_end))
    /\ lr_pc' = IF lr_selected' = <<>> THEN "exit" ELSE "load"
    /\ UNCHANGED <<lr_end, lr_date_chunks, lr_chunks, lr_idx, lr_chunk_id, lr_dirs,
                   lr_files, lr_reads, lr_loaded, lr_compressed, lr_csv, lr_deleted>>
    /\ LR_Frame

\* process_single_chunk(chunk_path, delete_after_load=True), lines 39-68:
\* read_parquet, os.remove, compress_multi_icao_df; the read or the
\* compression may raise.
LR_ProcessSingleChunk ==
    /\ lr_pc = "load"
    /\ lr_loaded < Len(lr_selected)
    /\ LET file == lr_selected[lr_loaded + 1]
       IN  \E outcome \in {"compressed", "read_raises", "compress_raises"} :
              /\ IF outcome = "read_raises"
                 THEN UNCHANGED <<lr_files, lr_deleted>>
                 ELSE /\ lr_files' = lr_files \ {file}
                      /\ lr_deleted' = lr_deleted \cup {file.path}
              /\ IF outcome = "compressed"
                 THEN /\ \E order \in Orders(QuickDedup(file.rows)) :
                            lr_compressed' = Append(lr_compressed,
                                                    CompressMultiIcaoDf(file.rows, order))
                      /\ lr_loaded' = lr_loaded + 1
                      /\ lr_pc' = "load"
                 ELSE /\ lr_pc' = "exit"
                      /\ UNCHANGED <<lr_compressed, lr_loaded>>
    /\ UNCHANGED <<lr_end, lr_date_chunks, lr_chunks, lr_idx, lr_chunk_id, lr_dirs,
                   lr_reads, lr_selected, lr_csv>>
    /\ LR_Frame

\* main lines 214-241: combine_compressed_chunks, no baseline merge, sort
\* by time and write the final CSV; the write may raise.
LR_CombineAndWrite ==
    /\ lr_pc = "load"
    /\ lr_loaded = Len(lr_selected)
    /\ \E ok \in BOOLEAN :
          IF ok
          THEN /\ lr_csv' \in SortByTime(combine_compressed_chunks(lr_compressed))
               /\ lr_pc' = "cleanup"
          ELSE /\ lr_pc' = "exit"
               /\ UNCHANGED lr_csv
    /\ UNCHANGED <<lr_end, lr_date_chunks, lr_chunks, lr_idx, lr_chunk_id, lr_dirs,
                   lr_files, lr_reads, lr_selected, lr_loaded, lr_compressed, lr_deleted>>
    /\ LR_Frame

\* main lines 243-247: cleanup_chunks(output_id, chunks_dir).
LR_Cleanup ==
    /\ lr_pc = "cleanup"
    /\ LET gone == GlobChunks(lr_files, ManifestId(1, lr_end))
       IN  /\ lr_files' = lr_files \ gone
           /\ lr_deleted' = lr_deleted \cup {f.path : f \in gone}
    /\ lr_pc' = "done"
    /\ UNCHANGED <<lr_end, lr_date_chunks, lr_chunks, lr_idx, lr_chunk_id, lr_dirs,
                   lr_reads, lr_selected, lr_loaded, lr_compressed, lr_csv>>
    /\ LR_Frame

LR_Next ==
    \/ LR_Download
    \/ LR_Process
    \/ LR_FindChunkFiles
    \/ LR_ProcessSingleChunk
    \/ LR_CombineAndWrite
    \/ LR_Cleanup

SpecLocal == LR_Init /\ [][LR_Next]_vars

\* C24: the combine step deletes a chunk parquet file only after the final
\* CSV has been written; when it fails before, every chunk file it read is
\* still on disk.
C24_DeleteOnlyAfterWrite ==
    /\ lr_deleted # {} => lr_pc \in {"cleanup", "done"}
    /\ lr_pc = "exit" => \A k \in 1..Len(lr_selected) : lr_selected[k] \in lr_files

\* C25: over more than one date chunk, the chunk files the combine step
\* selects hold each icao in at most one file, and the final CSV holds one
\* row per icao.
C25_OneFilePerIcao ==
    (Len(lr_date_chunks) > 1 /\ lr_pc \in {"load", "cleanup", "done"}) =>
        /\ \A i, j \in 1..Len(lr_selected) :
               i # j => {row.icao : row \in lr_selected[i].rows}
                          \cap {row.icao : row \in lr_selected[j].rows} = {}
        /\ \A i, j \in 1..Len(lr_csv) : lr_csv[i].icao = lr_csv[j].icao => i = j

\* C28: no day is read by two date chunks of the run, and no day outside
\* [start_date, end_date) is read.
C28_EachDayInOneDateChunk ==
    /\ \A i, j \in 1..Len(lr_reads) :
           lr_reads[i].idx # lr_reads[j].idx => lr_reads[i].days \cap lr_reads[j].days = {}
    /\ \A i \in 1..Len(lr_reads) : lr_reads[i].days \subseteq 1..(lr_end - 1)

(***************************************************************************)
(* Specification SpecGenerate: generate_chunks of                          *)
(* historical_generate_matrix.py ("matrix") and of trigger_pipeline.py     *)
(* ("trigger"), one loop iteration per step.  A date is a day number;      *)
(* datetime raises OverflowError below MinDate.  chunk_days is any int     *)
(* (int(INPUT_CHUNK_DAYS), argparse type=int).                             *)
(***************************************************************************)
GenKinds == {"matrix", "trigger"}

\* historical_generate_matrix.py line 30: the inclusive end of the chunk.
MatrixChunkEnd(current, end_date, chunk_days) ==
    Min(current + (chunk_days - 1), end_date - 1)

\* trigger_pipeline.py line 26: the exclusive end of the chunk.
TriggerChunkEnd(current, end_date, chunk_days) ==
    Min(current + chunk_days, end_date)

GEN_Init ==
    /\ GEN_OthersIdle
    /\ gen_pc = "loop"
    /\ gen_kind \in GenKinds
    /\ gen_current \in 1..MaxGenDay
    /\ gen_end \in 1..MaxGenDay
    /\ gen_chunk_days \in (0 - MaxGenChunkDays)..MaxGenChunkDays
    /\ gen_chunks = <<>>

\* One iteration of `while current < end`.
GEN_Iterate ==
    /\ gen_pc = "loop"
    /\ gen_current < gen_end
    /\ Len(gen_chunks) < MaxGenChunks
    /\ LET chunk_end == IF gen_kind = "matrix"
                        THEN MatrixChunkEnd(gen_current, gen_end, gen_chunk_days)
                        ELSE TriggerChunkEnd(gen_current, gen_end, gen_chunk_days)
           sum == IF gen_kind = "matrix" THEN gen_current + (gen_chunk_days - 1)
                  ELSE gen_current + gen_chunk_days
       IN  IF sum < MinDate
           THEN /\ gen_pc' = "raised"
                /\ UNCHANGED <<gen_current, gen_chunks>>
           ELSE /\ gen_chunks' = Append(gen_chunks, [start_date |-> gen_current,
                                                      end_date |-> chunk_end])
                /\ gen_current' = IF gen_kind = "matrix" THEN chunk_end + 1 ELSE chunk_end
                /\ gen_pc' = "loop"
    /\ UNCHANGED <<gen_kind, gen_end, gen_chunk_days>>
    /\ GEN_Frame

\* The loop condition fails: return chunks.
GEN_Return ==
    /\ gen_pc = "loop"
    /\ ~(gen_current < gen_end)
    /\ gen_pc' = "returned"
    /\ UNCHANGED <<gen_kind, gen_end, gen_chunk_days, gen_current, gen_chunks>>
    /\ GEN_Frame

GEN_Next ==
    \/ GEN_Iterate
    \/ GEN_Return

SpecGenerate == GEN_Init /\ [][GEN_Next]_vars

\* C30: every iteration of the loop of generate_chunks that does not end
\* the call moves the current date strictly forward, whatever the
\* chunk_days (zero and negative included), so the loop ends.
C30_CurrentMovesForward ==
    [][(gen_pc = "loop" /\ gen_current < gen_end)
          => (gen_pc' # "loop" \/ gen_current' > gen_current)]_vars

====
